---------------------------- MODULE Spec2Model ----------------------------
(***************************************************************************)
(* State-machine model of the "following, no reposts" feed generator:      *)
(* the SQLite store (posts, follows, active_users), the Jetstream event    *)
(* handler, the feed query and its pagination, the on-demand backfill      *)
(* task, and follow-set reconciliation.                                    *)
(*                                                                         *)
(* Instants (chrono DateTime<Utc>) are naturals counting half seconds.     *)
(* The store keeps every timestamp as the text produced by to_rfc3339(),   *)
(* and SQL compares and orders that text, so the text form is modelled:    *)
(* a string is a sequence of character codes.                              *)
(***************************************************************************)
EXTENDS Integers, Sequences, FiniteSets, TLC

(***************************************************************************)
(* Bounds of the model.                                                    *)
(***************************************************************************)
\* the clock stops at this instant (half seconds)
MaxNow == 1
\* latest instant a record's createdAt may name
MaxCreated == 3
\* pages a client fetches in one paging session
MaxPages == 6
\* backfill tasks alive at the same time
MaxTasks == 1
\* uuids the backfill may draw
MaxUuid == 1
\* rows of the bulk store used for the page-size bound
MaxBulk == 101
\* calls of start() the environment lets end
MaxRuns == 2
\* the largest limit backfill_posts is called with
MaxCap == 3

(***************************************************************************)
(* Universe.                                                               *)
(***************************************************************************)
DIDs == {"alice", "bob", "carol"}
ServiceDid == "did:web:feed"
\* Option<T>: None and Some(x)
NONE == << >>
Some(x) == <<x>>
\* no DID, no uri
NoDid == "none"
NoRow == [uri |-> NoDid]
\* a timestamp that did not parse
NoInstant == 0 - 1

POST == "app.bsky.feed.post"
FOLLOW == "app.bsky.graph.follow"
LIKE == "app.bsky.feed.like"

\* at://<did>/<collection>/<rkey>, jetstream_consumer.rs:125 and :186
AtUri(did, collection, rkey) == <<did, collection, rkey>>

(***************************************************************************)
(* RFC 3339 text.  chrono's to_rfc3339 writes a UTC instant with the       *)
(* offset "+00:00" and with a fraction only when the instant has one       *)
(* (SecondsFormat::AutoSi): "SS+00:00" or "SS.500+00:00".  The date and    *)
(* the constant tail of the offset are the same in every string and are    *)
(* left out; seconds are two digits wide as in the real format.            *)
(***************************************************************************)
PLUS == 43
DOT == 46
ZED == 90
Digit(d) == 48 + d
IsDigit(c) == c >= 48 /\ c <= 57

to_rfc3339(t) ==
    LET sec == t \div 2
    IN  <<Digit(sec \div 10), Digit(sec % 10)>> \o
        (IF t % 2 = 0 THEN <<PLUS>> ELSE <<DOT, Digit(5), Digit(0), Digit(0), PLUS>>)

\* what a client may write for the same instant: "SSZ" or "SS.5Z"
ZuluForm(t) ==
    LET sec == t \div 2
    IN  <<Digit(sec \div 10), Digit(sec % 10)>> \o
        (IF t % 2 = 0 THEN <<ZED>> ELSE <<DOT, Digit(5), ZED>>)

\* DateTime::parse_from_rfc3339(s).with_timezone(&Utc): the instant, or NoInstant
parse_from_rfc3339(s) ==
    IF Len(s) < 3 \/ ~IsDigit(s[1]) \/ ~IsDigit(s[2]) THEN NoInstant
    ELSE LET sec == (s[1] - 48) * 10 + (s[2] - 48)
             n == Len(s)
         IN  IF n = 3 /\ s[3] \in {PLUS, ZED} THEN 2 * sec
             ELSE IF n >= 5 /\ s[3] = DOT /\ s[n] \in {PLUS, ZED}
                     /\ \A i \in 4..(n - 1) : IsDigit(s[i])
                  THEN IF s[4] = Digit(5) /\ \A i \in 5..(n - 1) : s[i] = Digit(0)
                       THEN 2 * sec + 1
                       ELSE IF \A i \in 4..(n - 1) : s[i] = Digit(0)
                            THEN 2 * sec
                            ELSE NoInstant
                  ELSE NoInstant

\* SQLite compares TEXT bytewise (BINARY collation): a < b
TextLess(a, b) ==
    \E i \in 1..(Len(b)) :
        /\ \A j \in 1..(i - 1) : j <= Len(a) /\ a[j] = b[j]
        /\ \/ i > Len(a)
           \/ i <= Len(a) /\ a[i] < b[i]


(***************************************************************************)
(* State.                                                                  *)
(***************************************************************************)
VARIABLES
    now,          \* the wall clock, an instant
    posts,        \* table posts: a set of rows
    follows,      \* table follows: a set of rows
    active_users, \* table active_users: a set of rows
    tasks,        \* the spawned backfill tasks, by slot
    uuid,         \* how many uuids Uuid::new_v4 has handed out
    client,       \* the feed client: its last response and the pages it walked
    sync,         \* the running call of sync_follows_for_user
    applied,      \* history: per uri, the row of the last applied insert
    reposts,      \* history: where reposts were seen, and the uris written from one
    log,          \* history: the deletes the consumer processed, the last request
    server        \* the process: the consumer's loop, the retention loops, reconciliation

vars == <<now, posts, follows, active_users, tasks, uuid, client, sync,
          applied, reposts, log, server>>

(***************************************************************************)
(* The store (database.rs).  Each table is a set of rows; the primary key  *)
(* of posts and of follows is uri.                                         *)
(***************************************************************************)
\* types.rs: struct Post, as bound by insert_post (timestamps as text)
PostRow(uri, cid, author_did, text, created_at, indexed_at) ==
    [uri |-> uri, cid |-> cid, author_did |-> author_did, text |-> text,
     created_at |-> to_rfc3339(created_at), indexed_at |-> to_rfc3339(indexed_at)]

\* types.rs: struct Follow, as bound by insert_follow
FollowRow(uri, follower_did, target_did, created_at, indexed_at) ==
    [uri |-> uri, follower_did |-> follower_did, target_did |-> target_did,
     created_at |-> to_rfc3339(created_at), indexed_at |-> to_rfc3339(indexed_at)]

\* the uniqueness constraint INSERT OR REPLACE resolves: two rows with one uri
SameKey(r1, r2) == r1.uri = r2.uri

\* a plain INSERT into a table without the key: the row is added
insert_post_NoReplace(table, post) == table \cup {post}

\* INSERT OR REPLACE INTO posts
insert_post(table, post) == {r \in table : ~SameKey(r, post)} \cup {post}

\* a variant that deletes every post of the uri's repository
delete_post_ByAuthor(table, uri) == {r \in table : r.author_did # uri[1]}

\* a variant that leaves the row in place
delete_post_Keep(table, uri) == table

\* DELETE FROM posts WHERE uri = ?
delete_post(table, uri) == {r \in table : r.uri # uri}

\* INSERT OR IGNORE: the first row of a uri wins
insert_follow_Ignore(table, follow) ==
    IF \E r \in table : SameKey(r, follow) THEN table ELSE table \cup {follow}

\* a plain INSERT into a table without a key
insert_follow_NoReplace(table, follow) == table \cup {follow}

\* INSERT OR REPLACE INTO follows
insert_follow(table, follow) == {r \in table : ~SameKey(r, follow)} \cup {follow}

\* a variant that deletes by the repository the uri names
delete_follow_OfRepo(table, uri) == {r \in table : r.follower_did # uri[1]}

\* DELETE FROM follows WHERE uri = ?
delete_follow(table, uri) == {r \in table : r.uri # uri}

RowsOf(table, uri) == {r \in table : r.uri = uri}

\* .execute(&self.pool).await?; Ok(()): the result of a statement is Ok when the
\* database ran it, however many rows it affected
Executed(dbOk, rows_affected) == IF dbOk THEN "Ok" ELSE "Err"


(***************************************************************************)
(* The feed query (database.rs, get_following_posts).                      *)
(***************************************************************************)
\* cursor.and_then(parse_from_rfc3339 .ok()).unwrap_or_else(Utc::now)
cursor_time(cursor, clock) ==
    IF cursor = NONE THEN clock
    ELSE IF parse_from_rfc3339(cursor[1]) = NoInstant THEN clock
         ELSE parse_from_rfc3339(cursor[1])

\* FROM posts p INNER JOIN follows f ON f.target_did = p.author_did
\* WHERE f.follower_did = ? AND p.created_at < ?   (one row per pair <<p, f>>)
JoinRows(ptable, ftable, follower_did, bound) ==
    {pf \in ptable \X ftable :
        /\ pf[2].target_did = pf[1].author_did
        /\ pf[2].follower_did = follower_did
        /\ TextLess(pf[1].created_at, bound)}

\* a variant that orders by created_at ascending
Newest_Ascending(rows) ==
    {m \in rows : \A r \in rows : ~TextLess(r[1].created_at, m[1].created_at)}

\* the rows that ORDER BY p.created_at DESC may put first
Newest(rows) ==
    {m \in rows : \A r \in rows : ~TextLess(m[1].created_at, r[1].created_at)}

\* ORDER BY p.created_at DESC LIMIT k when rows share a created_at: every
\* order SQLite may produce (rows with equal created_at come in any order)
RECURSIVE OrderTies(_, _)
OrderTies(rows, k) ==
    IF rows = {} \/ k = 0 THEN {<< >>}
    ELSE UNION {{<<m[1]>> \o rest : rest \in OrderTies(rows \ {m}, k - 1)} :
                m \in Newest(rows)}

\* ORDER BY p.created_at DESC LIMIT k: the set of results.  A negative LIMIT
\* is no limit in SQLite.  When no two rows share a created_at the order is
\* determined: the row with i - 1 later rows comes i-th.
OrderLimit(rows, k) ==
    LET n == Cardinality(rows)
        len == IF k < 0 \/ k > n THEN n ELSE k
        later(r) == Cardinality({x \in rows : TextLess(r[1].created_at, x[1].created_at)})
        ranked == {<<later(r), r>> : r \in rows}
    IN  IF Cardinality({r[1].created_at : r \in rows}) = n
        THEN {[i \in 1..len |-> (CHOOSE lr \in ranked : lr[1] = i - 1)[2][1]]}
        ELSE OrderTies(rows, k)

\* row -> Post: the timestamps are parsed back from their text
RowToPost(r) ==
    [uri |-> r.uri, cid |-> r.cid, author_did |-> r.author_did, text |-> r.text,
     created_at |-> parse_from_rfc3339(r.created_at),
     indexed_at |-> parse_from_rfc3339(r.indexed_at)]

\* a variant that selects each post once however many follow rows match it
get_following_posts_Distinct(ptable, ftable, follower_did, limit, cursor, clock) ==
    LET bound == to_rfc3339(cursor_time(cursor, clock))
        rows == {<<pf[1], pf[1]>> : pf \in JoinRows(ptable, ftable, follower_did, bound)}
    IN  {[i \in 1..Len(q) |-> RowToPost(q[i])] : q \in OrderLimit(rows, limit)}

\* a variant whose bound is inclusive (created_at <= cursor)
get_following_posts_Inclusive(ptable, ftable, follower_did, limit, cursor, clock) ==
    LET bound == to_rfc3339(cursor_time(cursor, clock) + 1)
        rows == JoinRows(ptable, ftable, follower_did, bound)
    IN  {[i \in 1..Len(q) |-> RowToPost(q[i])] : q \in OrderLimit(rows, limit)}

\* a variant that joins on the follower alone
get_following_posts_AnyAuthor(ptable, ftable, follower_did, limit, cursor, clock) ==
    LET bound == to_rfc3339(cursor_time(cursor, clock))
        rows == {pf \in ptable \X ftable :
                    /\ pf[2].follower_did = follower_did
                    /\ TextLess(pf[1].created_at, bound)}
    IN  {[i \in 1..Len(q) |-> RowToPost(q[i])] : q \in OrderLimit(rows, limit)}

\* Database::get_following_posts: the set of results the query may return
get_following_posts(ptable, ftable, follower_did, limit, cursor, clock) ==
    LET bound == to_rfc3339(cursor_time(cursor, clock))
        rows == JoinRows(ptable, ftable, follower_did, bound)
    IN  {[i \in 1..Len(q) |-> RowToPost(q[i])] : q \in OrderLimit(rows, limit)}

(***************************************************************************)
(* The feed algorithm (feed_algorithm.rs).                                 *)
(***************************************************************************)
DefaultLimit == 50
MaxLimit == 100

Min(a, b) == IF a < b THEN a ELSE b

\* a variant that also raises a limit below 1 to 1
EffectiveLimit_Clamped(limit) ==
    IF limit = NONE THEN DefaultLimit
    ELSE IF limit[1] < 1 THEN 1 ELSE Min(limit[1], MaxLimit)

\* limit.unwrap_or(50).min(100)
EffectiveLimit(limit) == IF limit = NONE THEN DefaultLimit ELSE Min(limit[1], MaxLimit)

\* a variant that takes the first post of the page
PageCursor_First(page) ==
    IF Len(page) = 0 THEN NONE ELSE Some(to_rfc3339(page[1].created_at))

\* a variant that takes the time the last post was indexed
PageCursor_Indexed(page) ==
    IF Len(page) = 0 THEN NONE ELSE Some(to_rfc3339(page[Len(page)].indexed_at))

\* the cursor of a page: posts.last().map(|post| post.created_at.to_rfc3339())
PageCursor(page) ==
    IF Len(page) = 0 THEN NONE ELSE Some(to_rfc3339(page[Len(page)].created_at))

\* FeedSkeletonResponse, with the posts it was built from
FeedResponse(page) ==
    [feed |-> [i \in 1..Len(page) |-> page[i].uri],
     cursor |-> PageCursor(page),
     page |-> page]

\* FollowingNoRepostsFeed::generate_feed with requester_did = Some(did):
\* the set of responses it may produce
generate_feed(ptable, ftable, requester_did, limit, cursor, clock) ==
    {FeedResponse(page) :
        page \in get_following_posts(ptable, ftable, requester_did,
                                     EffectiveLimit(limit), cursor, clock)}


(***************************************************************************)
(* Firehose events and the event handler (jetstream_consumer.rs).          *)
(* A record is a JSON object: a function from the fields it has to their   *)
(* values.                                                                 *)
(***************************************************************************)
Has(record, field) == field \in DOMAIN record

Commit(did, collection, rkey, operation, record, cid) ==
    [kind |-> "commit", did |-> did, collection |-> collection, rkey |-> rkey,
     operation |-> operation, record |-> record, cid |-> cid]

EventUri(ev) == AtUri(ev.did, ev.collection, ev.rkey)

\* parse_from_rfc3339(createdAt).unwrap_or_else(|_| Utc::now())
created_at_of(record, clock) ==
    IF Has(record, "createdAt") /\ parse_from_rfc3339(record.createdAt) # NoInstant
    THEN parse_from_rfc3339(record.createdAt)
    ELSE clock

\* a filter that lets every record through
IsRepostRecord_Never(record) == FALSE

\* record.get("subject").is_some()
IsRepostRecord(record) == Has(record, "subject")

\* the Post that handle_post_event builds from a create commit
PostOfEvent(ev, clock) ==
    PostRow(EventUri(ev), ev.cid, ev.did,
            IF Has(ev.record, "text") THEN ev.record.text ELSE "",
            created_at_of(ev.record, clock), clock)

\* the Follow that handle_follow_event builds from a create commit
FollowOfEvent(ev, clock) ==
    FollowRow(EventUri(ev), ev.did,
              IF Has(ev.record, "subject") THEN ev.record.subject ELSE "",
              created_at_of(ev.record, clock), clock)

\* handle_post_event: the posts table after the event (dbOk: the statement succeeds)
handle_post_event(ptable, ev, clock, dbOk) ==
    IF ev.operation = "create"
    THEN IF IsRepostRecord(ev.record) \/ ~dbOk THEN ptable
         ELSE insert_post(ptable, PostOfEvent(ev, clock))
    ELSE IF ev.operation = "delete"
         THEN IF dbOk THEN delete_post(ptable, EventUri(ev)) ELSE ptable
         ELSE ptable

\* a handler that takes an update for a create
handle_follow_event_Update(ftable, ev, clock, dbOk) ==
    IF ev.operation \in {"create", "update"}
    THEN IF dbOk THEN insert_follow(ftable, FollowOfEvent(ev, clock)) ELSE ftable
    ELSE IF ev.operation = "delete"
         THEN IF dbOk THEN delete_follow(ftable, EventUri(ev)) ELSE ftable
         ELSE ftable

\* handle_follow_event: the follows table after the event
handle_follow_event(ftable, ev, clock, dbOk) ==
    IF ev.operation = "create"
    THEN IF dbOk THEN insert_follow(ftable, FollowOfEvent(ev, clock)) ELSE ftable
    ELSE IF ev.operation = "delete"
         THEN IF dbOk THEN delete_follow(ftable, EventUri(ev)) ELSE ftable
         ELSE ftable

(***************************************************************************)
(* History kept beside the store.                                          *)
(***************************************************************************)
\* the rows an event asks the store to insert, when the statement succeeds
EventWrites(ev, clock, dbOk) ==
    IF ev.kind = "commit" /\ ev.operation = "create" /\ dbOk
    THEN IF ev.collection = POST /\ ~Has(ev.record, "subject")
         THEN {PostOfEvent(ev, clock)}
         ELSE IF ev.collection = FOLLOW THEN {FollowOfEvent(ev, clock)} ELSE {}
    ELSE {}

\* applied, after a step that wrote `writes` (rows of distinct uris) and left
\* the tables ptable and ftable: a uri without a row is forgotten; `again`
\* keeps the collections in which a row was written over an existing one
Track(prev, writes, ptable, ftable) ==
    LET live == {r.uri : r \in ptable} \cup {r.uri : r \in ftable}
        keys == (DOMAIN prev.rows \cup {w.uri : w \in writes}) \cap live
    IN  [rows |-> [u \in keys |->
                    IF \E w \in writes : w.uri = u
                    THEN CHOOSE w \in writes : w.uri = u
                    ELSE prev.rows[u]],
         again |-> prev.again \cup
                   {w.uri[2] : w \in {x \in writes : x.uri \in DOMAIN prev.rows}}]

\* the client's walk is followed only while the store stays as it is
NoClient ==
    [did |-> NoDid, limit |-> NONE, status |-> 0, error |-> "", start |-> NoInstant,
     pages |-> << >>, cursor |-> NONE]

ClientSeesStore == client' = IF posts' = posts /\ follows' = follows THEN client ELSE NoClient

FollowsOf(ftable, did) == {f \in ftable : f.follower_did = did}

\* a call of sync_follows_for_user notes whether someone else changed its user's follows
SyncSeesStore ==
    sync' = IF sync.pc # "idle" /\ FollowsOf(follows', sync.did) # FollowsOf(follows, sync.did)
            THEN [sync EXCEPT !.clean = FALSE] ELSE sync

(***************************************************************************)
(* Initial state: empty tables, as after Database::migrate on a new file.  *)
(***************************************************************************)
NoTask == [pc |-> "idle"]
\* no request was made yet
NoRequest == [header |-> [kind |-> "missing"], at |-> NoInstant, status |-> 0, error |-> ""]
\* early: the uris a delete was processed for while they had no row;
\* gone: the post uris whose last processed commit is a delete;
\* expired: the uris retention deleted; event, failed: the last event the
\* consumer dispatched and whether its statement failed; survived: whether
\* an event was dispatched after one that failed; cap, attempts: the limit a
\* run of backfill_posts was called with and the inserts it has attempted;
\* remote: the accounts alice follows at the remote API
NoLog == [early |-> {}, gone |-> {}, request |-> NoRequest, expired |-> {},
          event |-> [kind |-> "none"], failed |-> FALSE, survived |-> FALSE,
          cap |-> 0, attempts |-> 0, remote |-> {}]
\* a retention loop as spawned: at its first interval.tick().await
RetentionLoop == [pc |-> "tick", last |-> "none"]
\* no pass of verify_active_user_follows or cleanup_inactive_user_follows runs
NoPass == [pc |-> "idle"]
\* the process after main spawned its loops: the retention loop of
\* main.rs:113-123, and the outer loop of main.rs:128-143 before its first
\* call of start()
NoServer ==
    [consumer |-> [pc |-> "start", runs |-> 0, left |-> 0, result |-> "none"],
     retention |-> <<RetentionLoop>>,
     pass |-> NoPass]
NoSync == [pc |-> "idle", did |-> NoDid, current |-> {}, todo |-> {}, before |-> {},
           clean |-> TRUE]

Init ==
    /\ now = MaxCreated
    /\ posts = {}
    /\ follows = {}
    /\ active_users = {}
    /\ tasks = [i \in 1..MaxTasks |-> NoTask]
    /\ uuid = 0
    /\ client = NoClient
    /\ sync = NoSync
    /\ applied = [rows |-> << >>, again |-> {}]
    /\ reposts = [seen |-> {}, written |-> {}]
    /\ log = NoLog
    /\ server = NoServer

(***************************************************************************)
(* Actions.                                                                *)
(***************************************************************************)
\* time passes
Tick ==
    /\ now < MaxCreated + MaxNow
    /\ now' = now + 1
    /\ UNCHANGED <<posts, follows, active_users, tasks, uuid, client, sync,
                   applied, reposts, log, server>>

\* EventHandler::handle_event for one event of the stream
HandleEvent(ev, dbOk) ==
    /\ posts' = IF ev.kind = "commit" /\ ev.collection = POST
                THEN handle_post_event(posts, ev, now, dbOk) ELSE posts
    /\ follows' = IF ev.kind = "commit" /\ ev.collection = FOLLOW
                  THEN handle_follow_event(follows, ev, now, dbOk) ELSE follows
    /\ applied' = Track(applied, EventWrites(ev, now, dbOk), posts', follows')
    /\ reposts' =
          IF /\ ev.kind = "commit" /\ ev.collection = POST /\ ev.operation = "create"
             /\ Has(ev.record, "subject")
          THEN [seen |-> reposts.seen \cup {"firehose"},
                written |-> IF posts' # posts THEN reposts.written \cup {EventUri(ev)}
                            ELSE reposts.written]
          ELSE reposts
    /\ ClientSeesStore
    /\ SyncSeesStore
    /\ UNCHANGED <<now, active_users, tasks, uuid>>


(***************************************************************************)
(* Authentication (auth.rs) and the feed endpoint (main.rs).               *)
(* A token is described by what validate_jwt looks at: the number of its   *)
(* dot-separated parts, the claims of its payload, whether the issuer's    *)
(* DID resolves to a signing key, and whether the signature verifies       *)
(* against that key.                                                       *)
(***************************************************************************)
Token(parts, claims, resolves, sig) ==
    [parts |-> parts, claims |-> claims, resolves |-> resolves, sig |-> sig]

AuthError(message) ==
    [ok |-> FALSE, error |-> message, iss |-> NoDid, aud |-> NoDid, exp |-> NoInstant]

\* Ok(JwtClaims { iss, aud, exp })
AuthOk(claims) ==
    [ok |-> TRUE, error |-> "", iss |-> claims.iss, aud |-> claims.aud, exp |-> claims.exp]

\* SystemTime::now() as whole seconds
now_secs(clock) == clock \div 2

\* a variant that does not verify the signature
validate_jwt_Unsigned(token, service_did, clock) ==
    IF token.parts # 3 THEN AuthError("Invalid JWT format")
    ELSE IF ~Has(token.claims, "iss") THEN AuthError("Missing 'iss' claim")
    ELSE IF ~Has(token.claims, "aud") THEN AuthError("Missing 'aud' claim")
    ELSE IF ~Has(token.claims, "exp") THEN AuthError("Missing 'exp' claim")
    ELSE IF token.claims.aud # service_did THEN AuthError("Invalid JWT audience")
    ELSE IF token.claims.exp < now_secs(clock) THEN AuthError("JWT has expired")
    ELSE AuthOk(token.claims)

\* validate_jwt(token, service_did)
validate_jwt(token, service_did, clock) ==
    IF token.parts # 3 THEN AuthError("Invalid JWT format")
    ELSE IF ~Has(token.claims, "iss") THEN AuthError("Missing 'iss' claim")
    ELSE IF ~Has(token.claims, "aud") THEN AuthError("Missing 'aud' claim")
    ELSE IF ~Has(token.claims, "exp") THEN AuthError("Missing 'exp' claim")
    ELSE IF token.claims.aud # service_did THEN AuthError("Invalid JWT audience")
    ELSE IF token.claims.exp < now_secs(clock) THEN AuthError("JWT has expired")
    ELSE IF ~token.resolves THEN AuthError("Failed to resolve DID")
    ELSE IF ~token.sig THEN AuthError("Invalid JWT signature")
    ELSE AuthOk(token.claims)

\* the Authorization header: absent, not readable as a string, or a string
\* (with or without the "Bearer " prefix, which is stripped when present)
NoHeader == [kind |-> "missing"]
UnreadableHeader == [kind |-> "unreadable"]
Header(bearer, token) == [kind |-> "value", bearer |-> bearer, token |-> token]

\* a variant that serves a request without a header as an anonymous one
Authenticate_Anonymous(header, clock) ==
    IF header.kind = "missing"
    THEN [ok |-> TRUE, error |-> "", iss |-> NoDid, aud |-> NoDid, exp |-> NoInstant]
    ELSE IF header.kind = "unreadable"
         THEN AuthError("Invalid authorization header format")
         ELSE validate_jwt(header.token, ServiceDid, clock)

\* get_feed_skeleton up to the token check
Authenticate(header, clock) ==
    IF header.kind = "missing"
    THEN AuthError("This feed shows posts from accounts you follow and requires authentication")
    ELSE IF header.kind = "unreadable"
         THEN AuthError("Invalid authorization header format")
         ELSE validate_jwt(header.token, ServiceDid, clock)

\* posts_per_user passed by get_feed_skeleton
PostsPerUser == 10

\* a variant in which the handler awaits the count query itself and spawns
\* the backfill proper
SpawnedTask_Started(did) ==
    [pc |-> "follows", did |-> did, cursor |-> NONE, targets |-> << >>,
     fetched |-> 0, limit |-> PostsPerUser]

\* a variant whose task begins with backfill_posts_for_follows
SpawnedTask_PostsFirst(did) ==
    [pc |-> "select", did |-> did, cursor |-> NONE, targets |-> << >>,
     fetched |-> 0, limit |-> PostsPerUser]

\* the task get_feed_skeleton spawns for the requester
SpawnedTask(did) ==
    [pc |-> "check", did |-> did, cursor |-> NONE, targets |-> << >>,
     fetched |-> 0, limit |-> PostsPerUser]

FreeSlots == {i \in DOMAIN tasks : tasks[i].pc = "idle"}
FirstFree == CHOOSE i \in FreeSlots : \A j \in FreeSlots : i <= j

\* whether this request is the next page of the walk the client is on
Continues(did, limit, cursor) ==
    /\ client.status = 200
    /\ client.did = did
    /\ client.limit = limit
    /\ cursor # NONE
    /\ cursor = client.cursor

\* the client after a 200 response
ClientAfter(did, limit, cursor, resp) ==
    [did |-> did, limit |-> limit, status |-> 200, error |-> "",
     start |-> IF Continues(did, limit, cursor) THEN client.start
               ELSE cursor_time(cursor, now),
     pages |-> IF Continues(did, limit, cursor) THEN Append(client.pages, resp.page)
               ELSE <<resp.page>>,
     cursor |-> resp.cursor]

ClientError(status, error) ==
    [NoClient EXCEPT !.status = status, !.error = error]

\* a variant that spawns the backfill for the issuer the token names before
\* the token is validated
get_feed_skeleton_SpawnFirst(header, limit, cursor, dbOk) ==
    LET auth == Authenticate(header, now)
        named == header.kind = "value" /\ Has(header.token.claims, "iss")
    IN  IF ~auth.ok
        THEN /\ client' = ClientError(401, "AuthenticationRequired")
             /\ IF named /\ FreeSlots # {}
                THEN tasks' = [tasks EXCEPT ![FirstFree] =
                                  SpawnedTask(header.token.claims.iss)]
                ELSE tasks' = tasks
             /\ UNCHANGED <<now, posts, follows, active_users, uuid, sync,
                            applied, reposts>>
        ELSE /\ FreeSlots # {}
             /\ Continues(auth.iss, limit, cursor) => Len(client.pages) < MaxPages
             /\ tasks' = [tasks EXCEPT ![FirstFree] = SpawnedTask(auth.iss)]
             /\ IF dbOk
                THEN \E resp \in generate_feed(posts, follows, auth.iss, limit, cursor, now) :
                        client' = ClientAfter(auth.iss, limit, cursor, resp)
                ELSE client' = ClientError(500, "InternalServerError")
             /\ UNCHANGED <<now, posts, follows, active_users, uuid, sync,
                            applied, reposts>>

\* GET /xrpc/app.bsky.feed.getFeedSkeleton (dbOk: the feed query succeeds)
get_feed_skeleton(header, limit, cursor, dbOk) ==
    LET auth == Authenticate(header, now)
    IN  IF ~auth.ok
        THEN /\ client' = ClientError(401, "AuthenticationRequired")
             /\ UNCHANGED <<now, posts, follows, active_users, tasks, uuid, sync,
                            applied, reposts>>
        ELSE /\ FreeSlots # {}
             /\ Continues(auth.iss, limit, cursor) => Len(client.pages) < MaxPages
             /\ tasks' = [tasks EXCEPT ![FirstFree] = SpawnedTask(auth.iss)]
             /\ IF dbOk
                THEN \E resp \in generate_feed(posts, follows, auth.iss, limit, cursor, now) :
                        client' = ClientAfter(auth.iss, limit, cursor, resp)
                ELSE client' = ClientError(500, "InternalServerError")
             /\ UNCHANGED <<now, posts, follows, active_users, uuid, sync,
                            applied, reposts>>


(***************************************************************************)
(* Backfill (backfill.rs), run by the task the feed endpoint spawns        *)
(* (main.rs:247-284).  One action is one await on the remote API or on a   *)
(* query, with the inserts of the page it returned.                        *)
(***************************************************************************)
\* the rkey made from the n-th Uuid::new_v4: never an rkey of the firehose
Uuid(n) == 0 - n

\* a response of app.bsky.graph.getFollows
FollowsResponse(ok, page, cursor) == [ok |-> ok, follows |-> page, cursor |-> cursor]

\* a response of app.bsky.feed.getAuthorFeed
FeedItem(uri, cid, record, reason) ==
    [uri |-> uri, cid |-> cid, record |-> record, reason |-> reason]
AuthorFeedResponse(ok, page, cursor) == [ok |-> ok, feed |-> page, cursor |-> cursor]
NoUri == << >>

\* SELECT COUNT(*) FROM follows WHERE follower_did = ?
CountFollows(ftable, did) == Cardinality({f \in ftable : f.follower_did = did})

\* the spawned task's first await: has_follows, 0 when the query fails
BackfillCheck(i, dbOk) ==
    /\ tasks[i].pc = "check"
    /\ LET has_follows == IF dbOk THEN CountFollows(follows, tasks[i].did) ELSE 0
       IN  tasks' = [tasks EXCEPT ![i] =
                        IF has_follows = 0 THEN [@ EXCEPT !.pc = "follows"] ELSE NoTask]
    /\ UNCHANGED <<now, posts, follows, active_users, uuid, client, sync,
                   applied, reposts, log, server>>

\* the entries of a page that name a did
NamedEntries(page) == {k \in 1..Len(page) : page[k] # ""}

\* the Follow written for entry k of a page, when n uuids were drawn before the page
BackfilledFollow(did, page, k, n, clock) ==
    FollowRow(AtUri(did, FOLLOW, Uuid(n + Cardinality({j \in NamedEntries(page) : j <= k}))),
              did, page[k], clock, clock)

\* the rows one page of backfill_follows inserts (fails: entries whose insert fails)
FollowsOfPage(did, page, n, clock, fails) ==
    {BackfilledFollow(did, page, k, n, clock) : k \in NamedEntries(page) \ fails}

\* db.insert_follow for each row of a page
RECURSIVE InsertFollows(_, _)
InsertFollows(table, rows) ==
    IF rows = {} THEN table
    ELSE LET r == CHOOSE x \in rows : TRUE
         IN  InsertFollows(insert_follow(table, r), rows \ {r})

\* one iteration of the loop of backfill_follows
BackfillFollows(i, resp, fails) ==
    /\ tasks[i].pc = "follows"
    /\ IF ~resp.ok
       THEN /\ tasks' = [tasks EXCEPT ![i] = NoTask]
            /\ UNCHANGED <<follows, uuid, applied, client, sync>>
       ELSE IF resp.follows = NONE
       THEN /\ tasks' = [tasks EXCEPT ![i].pc = "select"]
            /\ UNCHANGED <<follows, uuid, applied, client, sync>>
       ELSE LET page == resp.follows[1]
                rows == FollowsOfPage(tasks[i].did, page, uuid, now, fails)
            IN  /\ uuid + Cardinality(NamedEntries(page)) <= MaxUuid
                /\ uuid' = uuid + Cardinality(NamedEntries(page))
                /\ follows' = InsertFollows(follows, rows)
                /\ applied' = Track(applied, rows, posts, follows')
                /\ tasks' = [tasks EXCEPT ![i] =
                                IF resp.cursor = NONE THEN [@ EXCEPT !.pc = "select"]
                                ELSE [@ EXCEPT !.cursor = resp.cursor]]
                /\ client' = IF follows' = follows THEN client ELSE NoClient
                /\ SyncSeesStore
    /\ UNCHANGED <<now, posts, active_users, reposts, log, server>>

\* every order in which a query may return the rows of a set
RowOrders(S) ==
    {q \in [1..Cardinality(S) -> S] : \A a, b \in 1..Cardinality(S) : a # b => q[a] # q[b]}

\* backfill_posts_for_follows: SELECT target_did FROM follows WHERE follower_did = ?
BackfillSelect(i, dbOk) ==
    /\ tasks[i].pc = "select"
    /\ IF ~dbOk
       THEN tasks' = [tasks EXCEPT ![i] = NoTask]
       ELSE \E q \in RowOrders({f \in follows : f.follower_did = tasks[i].did}) :
               tasks' = [tasks EXCEPT ![i] =
                            IF Len(q) = 0 THEN NoTask
                            ELSE [@ EXCEPT !.pc = "posts", !.cursor = NONE, !.fetched = 0,
                                           !.targets = [k \in 1..Len(q) |-> q[k].target_did]]]
    /\ UNCHANGED <<now, posts, follows, active_users, uuid, client, sync,
                   applied, reposts, log, server>>

\* a filter that looks at the record alone
IsRepostItem_RecordOnly(item) == Has(item.record, "subject")

\* item.get("reason").is_some(), or record.get("subject").is_some()
IsRepostItem(item) == item.reason \/ Has(item.record, "subject")

\* the Post backfill_posts builds from a feed item
PostOfItem(item, target_did, clock) ==
    PostRow(item.uri, item.cid, target_did,
            IF Has(item.record, "text") THEN item.record.text ELSE "",
            created_at_of(item.record, clock), clock)

\* the for loop of backfill_posts over one page, from item k on.
\* acc: the table, the count `fetched`, whether the limit was reached, the rows
\* written, and (history) the reposts seen and the uris written from one
RECURSIVE PostsOfPage(_, _, _, _)
PostsOfPage(items, k, acc, ctx) ==
    IF k > Len(items) \/ acc.done THEN acc
    ELSE IF IsRepostItem(items[k]) \/ items[k].uri = NoUri \/ items[k].cid = ""
         THEN PostsOfPage(items, k + 1,
                  [acc EXCEPT !.seen = IF items[k].reason \/ Has(items[k].record, "subject")
                                       THEN {"backfill"} ELSE @],
                  ctx)
         ELSE LET row == PostOfItem(items[k], ctx.target, ctx.clock)
                  ok == k \notin ctx.fails
              IN  PostsOfPage(items, k + 1,
                      [table |-> IF ok THEN insert_post(acc.table, row) ELSE acc.table,
                       fetched |-> acc.fetched + 1,
                       done |-> acc.fetched + 1 >= ctx.limit,
                       writes |-> IF ok THEN {w \in acc.writes : w.uri # row.uri} \cup {row}
                                  ELSE acc.writes,
                       seen |-> IF items[k].reason \/ Has(items[k].record, "subject")
                                THEN {"backfill"} ELSE acc.seen,
                       marked |-> IF ok /\ (items[k].reason \/ Has(items[k].record, "subject"))
                                  THEN acc.marked \cup {row.uri} ELSE acc.marked],
                      ctx)

\* a variant in which the batch ends with its first target
NextTarget_Abort(t) == NoTask

\* the task moves on to the next target, or ends after the last
NextTarget(t) ==
    IF Len(t.targets) <= 1 THEN NoTask
    ELSE [t EXCEPT !.targets = Tail(@), !.cursor = NONE, !.fetched = 0]

\* one iteration of the loop of backfill_posts for the current target
BackfillPosts(i, resp, fails) ==
    /\ tasks[i].pc = "posts"
    /\ IF ~resp.ok \/ resp.feed = NONE
       THEN /\ tasks' = [tasks EXCEPT ![i] = NextTarget(@)]
            /\ UNCHANGED <<posts, applied, reposts, client>>
       ELSE LET t == tasks[i]
                acc == PostsOfPage(resp.feed[1], 1,
                          [table |-> posts, fetched |-> t.fetched, done |-> FALSE,
                           writes |-> {}, seen |-> {}, marked |-> {}],
                          [target |-> Head(t.targets), clock |-> now,
                           limit |-> t.limit, fails |-> fails])
            IN  /\ posts' = acc.table
                /\ applied' = Track(applied, acc.writes, posts', follows)
                /\ reposts' = [seen |-> reposts.seen \cup acc.seen,
                                written |-> reposts.written \cup acc.marked]
                /\ tasks' = [tasks EXCEPT ![i] =
                                IF acc.done \/ resp.cursor = NONE THEN NextTarget(@)
                                ELSE [@ EXCEPT !.cursor = resp.cursor, !.fetched = acc.fetched]]
                /\ client' = IF posts' = posts THEN client ELSE NoClient
    /\ UNCHANGED <<now, follows, active_users, uuid, sync>>


(***************************************************************************)
(* Follow-set reconciliation (database.rs, sync_follows_for_user).         *)
(* One action is one SQL statement.                                        *)
(***************************************************************************)
\* a test that keeps the stale follows and removes the current ones
IsStale_Inverted(current, db_target) == db_target \in current

\* !current_target_dids.contains(db_target)
IsStale(current, db_target) == db_target \notin current

\* DELETE FROM follows WHERE follower_did = ? AND target_did = ?
delete_follows_of(ftable, user_did, target_did) ==
    {f \in ftable : ~(f.follower_did = user_did /\ f.target_did = target_did)}

\* the call and its SELECT target_did FROM follows WHERE follower_did = ?
SyncCall(user_did, current, dbOk) ==
    /\ sync.pc \in {"idle", "ok", "err"}
    /\ sync' = [pc |-> IF dbOk THEN "loop" ELSE "err",
                did |-> user_did,
                current |-> current,
                todo |-> IF dbOk THEN {f.target_did : f \in FollowsOf(follows, user_did)}
                         ELSE {},
                before |-> FollowsOf(follows, user_did),
                clean |-> TRUE]
    /\ UNCHANGED <<now, posts, follows, active_users, tasks, uuid, client,
                   applied, reposts, log, server>>

\* the loop over db_target_dids: the next stale target is deleted, or the call returns
SyncStep(dbOk) ==
    /\ sync.pc = "loop"
    /\ UNCHANGED <<now, posts, active_users, tasks, uuid, reposts, log, server>>
    /\ LET stale == {d \in sync.todo : IsStale(sync.current, d)}
       IN  IF stale = {}
           THEN /\ sync' = [sync EXCEPT !.pc = "ok", !.todo = {}]
                /\ UNCHANGED <<follows, applied, client>>
           ELSE \E d \in stale :
                   IF dbOk
                   THEN /\ follows' = delete_follows_of(follows, sync.did, d)
                        /\ sync' = [sync EXCEPT !.todo = @ \ {d}]
                        /\ applied' = Track(applied, {}, posts, follows')
                        /\ ClientSeesStore
                   ELSE /\ sync' = [sync EXCEPT !.pc = "err", !.todo = {}]
                        /\ UNCHANGED <<follows, applied, client>>


\* a variant that writes the table anew
record_feed_request_Only(table, user_did, clock) ==
    {[did |-> user_did, last_feed_request |-> to_rfc3339(clock), last_follow_sync |-> NONE]}

(***************************************************************************)
(* Active users (database.rs).  A row is <did, last_feed_request,          *)
(* last_follow_sync>; did is the primary key, last_follow_sync is NULL     *)
(* until the first stamp.                                                  *)
(***************************************************************************)
\* INSERT INTO active_users (did, last_feed_request) VALUES (?, ?)
\* ON CONFLICT(did) DO UPDATE SET last_feed_request = excluded.last_feed_request
record_feed_request(table, user_did, clock) ==
    IF \E r \in table : r.did = user_did
    THEN {IF r.did = user_did THEN [r EXCEPT !.last_feed_request = to_rfc3339(clock)] ELSE r :
            r \in table}
    ELSE table \cup {[did |-> user_did, last_feed_request |-> to_rfc3339(clock),
                       last_follow_sync |-> NONE]}

\* UPDATE active_users SET last_follow_sync = ? WHERE did = ?
update_follow_sync(table, user_did, clock) ==
    {IF r.did = user_did THEN [r EXCEPT !.last_follow_sync = Some(to_rfc3339(clock))] ELSE r :
        r \in table}

\* chrono::Duration::hours(h), on the clock of the retention (an hour is one
\* instant long)
hours(h) == h

\* a variant that counts a request made exactly `days` ago as recent
get_active_users_Inclusive(table, days, clock) ==
    LET cutoff == to_rfc3339(clock - hours(24 * days))
        rows == {r \in table : ~TextLess(r.last_feed_request, cutoff)}
    IN  {[k \in 1..Len(q) |-> q[k].did] :
            q \in {o \in RowOrders(rows) :
                     \A a, b \in 1..Len(o) :
                         a < b => ~TextLess(o[a].last_feed_request, o[b].last_feed_request)}}

\* SELECT did FROM active_users WHERE last_feed_request > ?
\* ORDER BY last_feed_request DESC: every order the query may return
get_active_users(table, days, clock) ==
    LET cutoff == to_rfc3339(clock - hours(24 * days))
        rows == {r \in table : TextLess(cutoff, r.last_feed_request)}
    IN  {[k \in 1..Len(q) |-> q[k].did] :
            q \in {o \in RowOrders(rows) :
                     \A a, b \in 1..Len(o) :
                         a < b => ~TextLess(o[a].last_feed_request, o[b].last_feed_request)}}

\* a call of Database::record_feed_request
RecordRequest(user_did, dbOk) ==
    /\ active_users' = IF dbOk THEN record_feed_request(active_users, user_did, now)
                       ELSE active_users
    /\ UNCHANGED <<now, posts, follows, tasks, uuid, client, sync,
                   applied, reposts, log, server>>

(***************************************************************************)
(* Post retention (database.rs, cleanup_old_posts) and the loops that call *)
(* it (main.rs:113-123, jetstream_consumer.rs:48-58).  The windows of the   *)
(* loops are hours and days long; where they are used the clock is scaled  *)
(* so that they fit the seconds field of the text: an hour is one instant  *)
(* long.                                                                   *)
(***************************************************************************)

\* a variant that also deletes the rows indexed at the cutoff
cleanup_old_posts_Inclusive(ptable, h, clock) ==
    LET cutoff == to_rfc3339(clock - hours(h))
    IN  {p \in ptable : TextLess(cutoff, p.indexed_at)}

\* DELETE FROM posts WHERE indexed_at < ?  (bound to cutoff.to_rfc3339())
cleanup_old_posts(ptable, h, clock) ==
    LET cutoff == to_rfc3339(clock - hours(h))
    IN  {p \in ptable : ~TextLess(p.indexed_at, cutoff)}

\* a loop that returns when the call fails
AfterCleanup_Propagate(result) == IF result = "Err" THEN "exited" ELSE "tick"

\* if let Err(e) = ...cleanup_old_posts(48).await { warn!(..) }: the loop goes
\* round to interval.tick().await whatever the result
AfterCleanup(result) == "tick"

\* interval.tick().await returns in loop i; the interval runs on tokio's
\* monotonic timer, not on the wall clock
RetentionTick(i) ==
    /\ server.retention[i].pc = "tick"
    /\ server' = [server EXCEPT !.retention[i].pc = "call"]
    /\ UNCHANGED <<now, posts, follows, active_users, tasks, uuid, client, sync,
                   applied, reposts, log>>

\* loop i calls cleanup_old_posts(48)
RetentionCleanup(i, dbOk) ==
    /\ server.retention[i].pc = "call"
    /\ posts' = IF dbOk THEN cleanup_old_posts(posts, 48, now) ELSE posts
    /\ server' = [server EXCEPT !.retention[i] =
                      [pc |-> AfterCleanup(Executed(dbOk, Cardinality(posts \ posts'))),
                       last |-> Executed(dbOk, Cardinality(posts \ posts'))]]
    /\ applied' = Track(applied, {}, posts', follows)
    /\ client' = IF posts' = posts THEN client ELSE NoClient
    /\ UNCHANGED <<now, follows, active_users, tasks, uuid, sync, reposts>>

\* the wall clock moves on to a later instant
Elapse(next) ==
    /\ next > now
    /\ now' = next
    /\ UNCHANGED <<posts, follows, active_users, tasks, uuid, client, sync,
                   applied, reposts, log, server>>

(***************************************************************************)
(* The consumer (main.rs:125-143, jetstream_consumer.rs, start).  The      *)
(* connection belongs to the atproto_jetstream crate: connecting, the      *)
(* stream ending and the crate's reaction to a handler's Err are choices   *)
(* of the environment.                                                     *)
(***************************************************************************)
\* a loop that ends when start() returns Ok
AfterRun_Stop(consumer, result) ==
    IF result = "Err"
    THEN [consumer EXCEPT !.pc = "sleeping", !.left = 5, !.result = result]
    ELSE [consumer EXCEPT !.pc = "stopped", !.result = result]

\* main.rs:131-141: both arms of `if let Err(e) = event_handler.start(..).await`
\* warn and call tokio::time::sleep(Duration::from_secs(5))
AfterRun(consumer, result) ==
    IF result = "Err"
    THEN [consumer EXCEPT !.pc = "sleeping", !.left = 5, !.result = result]
    ELSE [consumer EXCEPT !.pc = "sleeping", !.left = 5, !.result = result]

\* a handler that returns the error of its statement
Caught_Returned(result) == result

\* `if let Err(e) = self.db.insert_post(&post).await { error!(..) }`: the error
\* of the statement is logged and the handler goes on to Ok(())
Caught(result) == "Ok"

\* the Result of handle_event: handle_post_event(..).await? and
\* handle_follow_event(..).await?, then Ok(())
handle_event(ev, dbOk) ==
    IF ev.kind # "commit" THEN "Ok"
    ELSE IF ev.collection \notin {POST, FOLLOW} THEN "Ok"
    ELSE IF ev.operation = "create"
         THEN IF ev.collection = POST /\ IsRepostRecord(ev.record) THEN "Ok"
              ELSE Caught(Executed(dbOk, 1))
         ELSE IF ev.operation = "delete"
              THEN Caught(Executed(dbOk, Cardinality(RowsOf(posts \cup follows, EventUri(ev)))))
              ELSE "Ok"

\* the outer loop calls start(): register_handler(..).await?, then the
\* retention loop of jetstream_consumer.rs:48-58 is spawned.  far: whether
\* the environment may still fail this run
ConsumerStart(regOk, far) ==
    /\ server.consumer.pc = "start"
    /\ regOk \/ far
    /\ LET started == [server.consumer EXCEPT !.runs = @ + 1]
       IN  server' = IF regOk
                     THEN [server EXCEPT !.consumer = [started EXCEPT !.pc = "connecting"],
                                         !.retention = Append(@, RetentionLoop)]
                     ELSE [server EXCEPT !.consumer = AfterRun(started, "Err")]
    /\ UNCHANGED <<now, posts, follows, active_users, tasks, uuid, client, sync,
                   applied, reposts, log>>

\* consumer.run_background(..).await?: the connection is made, or fails
ConsumerConnect(ok, far) ==
    /\ server.consumer.pc = "connecting"
    /\ ok \/ far
    /\ server' = [server EXCEPT !.consumer =
                      IF ok THEN [@ EXCEPT !.pc = "connected"] ELSE AfterRun(@, "Err")]
    /\ UNCHANGED <<now, posts, follows, active_users, tasks, uuid, client, sync,
                   applied, reposts, log>>

\* the stream delivers ev and the crate calls handle_event; what the crate
\* does with an Err of the handler is its own: it goes on with the stream,
\* or ends the run with that error
ConsumerDispatch(ev, dbOk, far) ==
    /\ server.consumer.pc = "connected"
    /\ HandleEvent(ev, dbOk)
    /\ \E next \in IF handle_event(ev, dbOk) = "Err" /\ far THEN {"go on", "end"}
                    ELSE {"go on"} :
          /\ server' = [server EXCEPT !.consumer =
                            IF next = "end" THEN AfterRun(@, "Err") ELSE @]

\* run_background returns: the stream failed (Err) or was closed (Ok)
ConsumerEnd(result, far) ==
    /\ server.consumer.pc = "connected"
    /\ far
    /\ server' = [server EXCEPT !.consumer = AfterRun(@, result)]
    /\ UNCHANGED <<now, posts, follows, active_users, tasks, uuid, client, sync,
                   applied, reposts, log>>

\* one second of the sleep passes; when none is left the sleep returns and
\* the outer loop goes round
ConsumerSleep ==
    /\ server.consumer.pc = "sleeping"
    /\ server' = IF server.consumer.left > 0
                 THEN [server EXCEPT !.consumer.left = @ - 1]
                 ELSE [server EXCEPT !.consumer.pc = "start"]
    /\ UNCHANGED <<now, posts, follows, active_users, tasks, uuid, client, sync,
                   applied, reposts, log>>

(***************************************************************************)
(* A pass of follow-set reconciliation (cleanup.rs,                        *)
(* verify_active_user_follows).  One action is one await: the query for    *)
(* the active users, a page of getFollows, the statements of               *)
(* sync_follows_for_user (SyncCall, SyncStep) and the stamp.               *)
(* pass.list: the users the query returned; users: those still to do, the  *)
(* first being worked on; current: the targets collected for it; fetched,  *)
(* synced, stamped: the users whose paging ended without error, whose      *)
(* sync_follows_for_user returned Ok, and whose stamp was written.         *)
(***************************************************************************)
\* a pass that returns the error of a user
NextUser_Abort(pass, result) ==
    IF result = "Err" THEN [pass EXCEPT !.pc = "failed"]
    ELSE [pass EXCEPT !.users = Tail(@), !.current = {},
                      !.pc = IF Len(pass.users) > 1 THEN "fetch" ELSE "done"]

\* match verify_follows_for_user(..) { Ok(_) => .., Err(e) => warn!(..) }: the
\* for loop goes on to the next user whatever the result
NextUser(pass, result) ==
    [pass EXCEPT !.users = Tail(@), !.current = {},
                 !.pc = IF Len(pass.users) > 1 THEN "fetch" ELSE "done"]

\* verify_active_user_follows is called: db.get_active_users(7).await?
PassStart(dbOk) ==
    /\ server.pass.pc \in {"idle", "done", "failed", "cleaned"}
    /\ sync.pc = "idle"
    /\ \E list \in get_active_users(active_users, 7, now) :
          server' = [server EXCEPT !.pass =
                        [pc |-> IF ~dbOk THEN "failed"
                                ELSE IF Len(list) = 0 THEN "done" ELSE "fetch",
                         list |-> IF dbOk THEN list ELSE << >>,
                         users |-> IF dbOk THEN list ELSE << >>,
                         current |-> {}, fetched |-> {}, synced |-> {}, stamped |-> {}]]
    /\ UNCHANGED <<now, posts, follows, active_users, tasks, uuid, client, sync,
                   applied, reposts, log>>

\* verify_follows_for_user: one iteration of its loop over the pages
PassFetch(resp) ==
    /\ server.pass.pc = "fetch"
    /\ LET pass == server.pass
           user == Head(pass.users)
       IN  server' = [server EXCEPT !.pass =
              IF ~resp.ok THEN NextUser(pass, "Err")
              ELSE IF resp.follows = NONE
                   THEN [pass EXCEPT !.pc = "sync", !.fetched = @ \cup {user}]
                   ELSE LET page == resp.follows[1]
                            more == [pass EXCEPT !.current =
                                        @ \cup {page[k] : k \in NamedEntries(page)}]
                        IN  IF resp.cursor = NONE
                            THEN [more EXCEPT !.pc = "sync", !.fetched = @ \cup {user}]
                            ELSE more]
    /\ UNCHANGED <<now, posts, follows, active_users, tasks, uuid, client, sync,
                   applied, reposts, log>>

\* db.sync_follows_for_user(user_did, current_follows).await? is entered
PassSync(dbOk) ==
    /\ server.pass.pc = "sync"
    /\ sync.pc = "idle"
    /\ SyncCall(Head(server.pass.users), server.pass.current, dbOk)

\* sync_follows_for_user returned: on Ok, db.update_follow_sync(&user_did)
PassStamp(dbOk) ==
    /\ server.pass.pc = "sync"
    /\ sync.pc \in {"ok", "err"}
    /\ LET pass == server.pass
           user == Head(pass.users)
       IN  IF sync.pc = "ok"
           THEN /\ active_users' = IF dbOk THEN update_follow_sync(active_users, user, now)
                                   ELSE active_users
                /\ server' = [server EXCEPT !.pass =
                                 NextUser([pass EXCEPT
                                             !.synced = @ \cup {user},
                                             !.stamped = IF dbOk THEN @ \cup {user} ELSE @],
                                          "Ok")]
           ELSE /\ active_users' = active_users
                /\ server' = [server EXCEPT !.pass = NextUser(pass, "Err")]
    /\ sync' = NoSync
    /\ UNCHANGED <<now, posts, follows, tasks, uuid, client, applied, reposts, log>>

(***************************************************************************)
(* The cleanup of inactive users' follows (cleanup.rs,                     *)
(* cleanup_inactive_user_follows).  Each await of it ends the call on an   *)
(* error.                                                                  *)
(***************************************************************************)
\* cleanup_inactive_user_follows is called: SELECT DISTINCT follower_did FROM follows
InactiveStart(dbOk) ==
    /\ server.pass.pc \in {"idle", "done", "failed", "cleaned"}
    /\ server' = [server EXCEPT !.pass =
                     IF dbOk THEN [pc |-> "query", dids |-> {f.follower_did : f \in follows},
                                   deleted_count |-> 0]
                     ELSE [pc |-> "cleaned", result |-> "Err", deleted_count |-> 0]]
    /\ UNCHANGED <<now, posts, follows, active_users, tasks, uuid, client, sync,
                   applied, reposts, log>>

\* db.get_active_users(7), then DELETE FROM follows WHERE follower_did = ? for
\* one follower after the other that is not among the active users
InactiveStep(dbOk) ==
    /\ server.pass.pc \in {"query", "delete"}
    /\ UNCHANGED <<now, posts, active_users, tasks, uuid, sync, reposts, log>>
    /\ LET pass == server.pass
           list == CHOOSE l \in get_active_users(active_users, 7, now) : TRUE
           Left(dids, n) ==
               IF dids = {} THEN [pc |-> "cleaned", result |-> "Ok", deleted_count |-> n]
               ELSE [pc |-> "delete", dids |-> dids, deleted_count |-> n]
       IN  IF ~dbOk
           THEN /\ server' = [server EXCEPT !.pass =
                                 [pc |-> "cleaned", result |-> "Err",
                                  deleted_count |-> pass.deleted_count]]
                /\ UNCHANGED <<follows, applied, client>>
           ELSE IF pass.pc = "query"
           THEN /\ server' = [server EXCEPT !.pass =
                                 Left(pass.dids \ {list[k] : k \in 1..Len(list)}, 0)]
                /\ UNCHANGED <<follows, applied, client>>
           ELSE \E d \in pass.dids :
                   /\ follows' = {f \in follows : f.follower_did # d}
                   /\ server' = [server EXCEPT !.pass =
                                    Left(pass.dids \ {d},
                                         pass.deleted_count
                                         + Cardinality(follows \ follows'))]
                   /\ applied' = Track(applied, {}, posts, follows')
                   /\ ClientSeesStore

(***************************************************************************)
(* Inputs.                                                                 *)
(***************************************************************************)
CID == "bafy-1"

\* post records: plain, without createdAt, without text and in "Z" form, repost
PlainPost(t) == [text |-> "hi", createdAt |-> to_rfc3339(t)]
UndatedPost == [text |-> "hi"]
ZuluPost(t) == [createdAt |-> ZuluForm(t)]
Repost(t) == [text |-> "hi", createdAt |-> to_rfc3339(t), subject |-> "at://carol/post"]

\* follow records
FollowRec(target) == [subject |-> target, createdAt |-> to_rfc3339(0)]
FollowRecNoSubject == [createdAt |-> to_rfc3339(0)]

\* events other than commits
OtherKinds == {[kind |-> k, did |-> "bob"] : k \in {"account", "identity", "delete"}}

\* a token the verifier accepts for did until the clock stops
GoodToken(did) ==
    Token(3, [iss |-> did, aud |-> ServiceDid, exp |-> MaxCreated + MaxNow], TRUE, TRUE)

GoodHeader(did) == Header(TRUE, GoodToken(did))

(***************************************************************************)
(* Specification Spec: ingestion.  The firehose and the backfill tasks     *)
(* write the store while the clock runs.                                   *)
(***************************************************************************)
IngestEvents ==
    {Commit("bob", POST, 1, op, rec, CID) :
        op \in {"create"},
        rec \in {PlainPost(0), PlainPost(MaxCreated), UndatedPost, ZuluPost(1), Repost(0)}}
    \cup {Commit("bob", POST, 1, op, UndatedPost, CID) : op \in {"delete", "update"}}
    \cup {Commit("carol", POST, 2, "create", PlainPost(1), CID),
          Commit("carol", POST, 2, "delete", UndatedPost, CID)}
    \cup {Commit("alice", FOLLOW, 1, "create", rec, CID) :
            rec \in {FollowRec("bob"), FollowRec("carol"), FollowRecNoSubject}}
    \cup {Commit("alice", FOLLOW, 1, op, FollowRecNoSubject, CID) : op \in {"delete", "update"}}
    \cup {Commit("bob", LIKE, 1, "create", UndatedPost, CID)}
    \cup OtherKinds

Ingest ==
    /\ \E ev \in IngestEvents, dbOk \in BOOLEAN : HandleEvent(ev, dbOk)
    /\ UNCHANGED <<log, server>>

Next ==
    \/ Tick
    \/ Ingest

Spec == Init /\ [][Next]_vars


\* C1: a uri whose create commit (or backfill insert) was applied, once or many
\* times, has exactly one row in the store, and that row is the one built by the
\* last application.
C1_IdempotentIngestion ==
    \A u \in DOMAIN applied.rows : RowsOf(posts \cup follows, u) = {applied.rows[u]}

\* a post uri and a follow uri were each applied again over an existing row
C1_Witness ==
    applied.again = {POST, FOLLOW}


(***************************************************************************)
(* Specification SpecBackfill: the firehose writes posts while feed        *)
(* requests spawn backfill tasks that page the remote API.                 *)
(***************************************************************************)
BackfillEvents ==
    {Commit("bob", POST, 1, "create", rec, CID) : rec \in {PlainPost(0), Repost(1)}}
    \cup {Commit("bob", POST, 1, "delete", UndatedPost, CID)}

BackfillFollowsResponses ==
    {FollowsResponse(FALSE, NONE, NONE),
     FollowsResponse(TRUE, NONE, NONE),
     FollowsResponse(TRUE, Some(<<"bob", "">>), NONE),
     FollowsResponse(TRUE, Some(<<"bob">>), Some("c"))}

BackfillFeedResponses ==
    {AuthorFeedResponse(FALSE, NONE, NONE),
     AuthorFeedResponse(TRUE, NONE, NONE),
     AuthorFeedResponse(TRUE,
        Some(<<FeedItem(AtUri("bob", POST, 1), CID, PlainPost(1), FALSE),
               FeedItem(AtUri("carol", POST, 1), CID, PlainPost(0), TRUE),
               FeedItem(AtUri("bob", POST, 2), CID, Repost(0), FALSE)>>), NONE),
     AuthorFeedResponse(TRUE,
        Some(<<FeedItem(NoUri, CID, PlainPost(0), FALSE),
               FeedItem(AtUri("bob", POST, 2), "", PlainPost(0), FALSE),
               FeedItem(AtUri("bob", POST, 2), CID, UndatedPost, FALSE)>>), Some("c"))}

BackfillIngest ==
    /\ \E ev \in BackfillEvents, dbOk \in BOOLEAN : HandleEvent(ev, dbOk)
    /\ UNCHANGED <<log, server>>

BackfillRequest ==
    /\ \E h \in {NoHeader, GoodHeader("alice")} : get_feed_skeleton(h, NONE, NONE, TRUE)
    /\ UNCHANGED <<log, server>>

TaskCheck == \E i \in DOMAIN tasks, dbOk \in BOOLEAN : BackfillCheck(i, dbOk)

TaskFollows ==
    \E i \in DOMAIN tasks, resp \in BackfillFollowsResponses, fails \in SUBSET {1} :
        BackfillFollows(i, resp, fails)

TaskSelect == \E i \in DOMAIN tasks, dbOk \in BOOLEAN : BackfillSelect(i, dbOk)

TaskPosts ==
    /\ \E i \in DOMAIN tasks, resp \in BackfillFeedResponses, fails \in SUBSET {1} :
          BackfillPosts(i, resp, fails)
    /\ UNCHANGED <<log, server>>

NextBackfill ==
    \/ BackfillIngest
    \/ BackfillRequest
    \/ TaskCheck
    \/ TaskFollows
    \/ TaskSelect
    \/ TaskPosts

SpecBackfill == Init /\ [][NextBackfill]_vars


\* the first page of every requester's feed
AllFeeds(ptable, ftable, clock) ==
    [d \in DIDs |-> generate_feed(ptable, ftable, d, NONE, NONE, clock)]

\* the firehose hands the handler a create commit of a post record with a subject
RepostIngested ==
    \E ev \in {e \in BackfillEvents : e.operation = "create" /\ Has(e.record, "subject")},
       dbOk \in BOOLEAN : HandleEvent(ev, dbOk)

\* C2: no post row is ever written from a record that has a subject field or
\* from an author-feed item that has a reason field, and ingesting a create
\* commit of such a record leaves the posts table and every feed as they were.
C2_NoRepostsInIndex ==
    /\ [](reposts.written = {})
    /\ [][RepostIngested =>
            /\ posts' = posts
            /\ AllFeeds(posts', follows', now') = AllFeeds(posts, follows, now)]_vars

\* reposts came in from the firehose and from the backfill, next to a post that
\* is indexed and shown in alice's feed
C2_Witness ==
    /\ reposts.seen = {"firehose", "backfill"}
    /\ \E resp \in AllFeeds(posts, follows, now)["alice"] : Len(resp.feed) > 0


(***************************************************************************)
(* Specification SpecFeed: the firehose fills the store, a backfill task   *)
(* adds the follows of a new requester, and a client pages through the     *)
(* feed.                                                                   *)
(***************************************************************************)
FeedEvents ==
    {Commit("bob", POST, rkey, "create", PlainPost(t), CID) :
        rkey \in {1, 2}, t \in 0..MaxCreated}
    \cup {Commit("carol", POST, 1, "create", PlainPost(0), CID)}
    \cup {Commit("alice", FOLLOW, 1, "create", FollowRec(target), CID) :
            target \in {"bob", "carol"}}

FeedFollowsResponses ==
    {FollowsResponse(FALSE, NONE, NONE),
     FollowsResponse(TRUE, Some(<<"bob">>), NONE)}

FeedFeedResponses == {AuthorFeedResponse(FALSE, NONE, NONE)}

\* the cursors a client sends: none, the one it was given, one of its own
FeedCursors == {NONE, client.cursor, Some(ZuluForm(2)), Some(<< >>)}

FeedIngest ==
    /\ \E ev \in FeedEvents : HandleEvent(ev, TRUE)
    /\ UNCHANGED <<log, server>>

FeedRequest ==
    /\ \E limit \in {Some(1), Some(2)}, cursor \in FeedCursors, dbOk \in BOOLEAN :
          get_feed_skeleton(GoodHeader("alice"), limit, cursor, dbOk)
    /\ UNCHANGED <<log, server>>

FeedTaskCheck == \E i \in DOMAIN tasks : BackfillCheck(i, TRUE)

FeedTaskFollows ==
    \E i \in DOMAIN tasks, resp \in FeedFollowsResponses : BackfillFollows(i, resp, {})

FeedTaskSelect == \E i \in DOMAIN tasks : BackfillSelect(i, TRUE)

FeedTaskPosts ==
    /\ \E i \in DOMAIN tasks, resp \in FeedFeedResponses : BackfillPosts(i, resp, {})
    /\ UNCHANGED <<log, server>>

NextFeed ==
    \/ FeedIngest
    \/ FeedRequest
    \/ FeedTaskCheck
    \/ FeedTaskFollows
    \/ FeedTaskSelect
    \/ FeedTaskPosts

SpecFeed == Init /\ [][NextFeed]_vars


(***************************************************************************)
(* Specification SpecPaging: the firehose writes posts and follows while a *)
(* client pages through the feed; the remote API does not answer, so the   *)
(* tasks the requests spawn end without writing.                           *)
(***************************************************************************)
PagingEvents ==
    {Commit("bob", POST, 1, "create", PlainPost(t), CID) : t \in 0..MaxCreated}
    \cup {Commit("bob", POST, 2, "create", PlainPost(1), CID)}
    \cup {Commit("carol", POST, 1, "create", PlainPost(0), CID)}
    \cup {Commit("alice", FOLLOW, 1, "create", FollowRec(target), CID) :
            target \in {"bob", "carol"}}
    \cup {Commit("alice", FOLLOW, 2, "create", FollowRec("bob"), CID)}

PagingIngest ==
    /\ \E ev \in PagingEvents : HandleEvent(ev, TRUE)
    /\ UNCHANGED <<log, server>>

PagingRequest ==
    /\ \E limit \in {Some(1), Some(2)}, cursor \in FeedCursors, dbOk \in BOOLEAN :
          get_feed_skeleton(GoodHeader("alice"), limit, cursor, dbOk)
    /\ UNCHANGED <<log, server>>

PagingTaskCheck == \E i \in DOMAIN tasks : BackfillCheck(i, TRUE)

PagingTaskFollows ==
    \E i \in DOMAIN tasks : BackfillFollows(i, FollowsResponse(FALSE, NONE, NONE), {})

NextPaging ==
    \/ PagingIngest
    \/ PagingRequest
    \/ PagingTaskCheck
    \/ PagingTaskFollows

SpecPaging == Init /\ [][NextPaging]_vars


\* the posts of the pages the client walked, in the order it received them
RECURSIVE Flatten(_)
Flatten(pages) == IF pages = << >> THEN << >> ELSE Head(pages) \o Flatten(Tail(pages))

Walk == Flatten(client.pages)

LastPage == client.pages[Len(client.pages)]

Follows(ftable, follower_did, target_did) ==
    \E f \in ftable : f.follower_did = follower_did /\ f.target_did = target_did

\* C3: every post of every page that the feed query or the feed algorithm may
\* return to a requester, and every post the client received, has an author
\* that is the target of a follow row of that requester in the store queried.
C3_FeedMembership ==
    /\ \A d \in DIDs : \A resp \in generate_feed(posts, follows, d, NONE, NONE, now) :
          \A i \in 1..Len(resp.page) : Follows(follows, d, resp.page[i].author_did)
    /\ client.status = 200 =>
          \A i \in 1..Len(Walk) : Follows(follows, client.did, Walk[i].author_did)

\* the client received a post while the store holds an older post of an author
\* the client does not follow
C3_Witness ==
    /\ client.status = 200
    /\ Len(Walk) > 0
    /\ \E r \in posts : /\ ~Follows(follows, client.did, r.author_did)
                        /\ TextLess(r.created_at, to_rfc3339(now))

\* C4: read in the order received, within a page and from one page to the
\* next of a walk along the returned cursors, created_at never increases.
C4_FeedMonotone ==
    client.status = 200 =>
        \A i \in 1..(Len(Walk) - 1) : Walk[i].created_at >= Walk[i + 1].created_at

\* a walk of two non-empty pages that goes from a newer post to an older one
C4_Witness ==
    /\ client.status = 200
    /\ Len(client.pages) >= 2
    /\ Len(client.pages[1]) = 2
    /\ Len(client.pages[2]) > 0
    /\ Walk[1].created_at > Walk[Len(Walk)].created_at

\* C8: the cursor of a response is null exactly when its page is empty, and
\* otherwise it is the created_at of the last post of the page.
C8_NextPageCursor ==
    client.status = 200 =>
        /\ client.cursor = NONE <=> Len(LastPage) = 0
        /\ Len(LastPage) > 0 =>
              /\ parse_from_rfc3339(client.cursor[1]) = LastPage[Len(LastPage)].created_at
              /\ \E r \in posts : /\ r.uri = LastPage[Len(LastPage)].uri
                                  /\ r.created_at = client.cursor[1]

\* a page of two posts of different created_at came back with its cursor
C8_Witness ==
    /\ client.status = 200
    /\ Len(LastPage) = 2
    /\ LastPage[1].created_at # LastPage[2].created_at
    /\ client.cursor # NONE


\* E: the posts of the authors follower follows that were created before bound
Eligible(ptable, ftable, follower, bound) ==
    {RowToPost(r) : r \in {p \in ptable :
        /\ Follows(ftable, follower, p.author_did)
        /\ parse_from_rfc3339(p.created_at) < bound}}

\* the posts of a sequence of posts
PostsIn(w) == {w[i] : i \in 1..Len(w)}

\* how many posts the pages before page k hold
RECURSIVE Before(_, _)
Before(pages, k) == IF k <= 1 THEN 0 ELSE Before(pages, k - 1) + Len(pages[k - 1])

\* C5: no post uri comes twice within a page or across the pages of a walk
\* along the returned cursors, whatever follow rows the store holds.
C5_NoDuplicateUri ==
    client.status = 200 =>
        \A i, j \in 1..Len(Walk) : i # j => Walk[i].uri # Walk[j].uri

\* C6: for a limit in 1..100 the first page of a walk is the min(limit, |E|)
\* newest elements of E, newest first, E being the posts of followed authors
\* created before the cursor instant (before now without a cursor): no
\* eligible post newer than a returned post is left out.
C6_FeedQueryResult ==
    (client.status = 200 /\ Len(client.pages) = 1
        /\ client.limit # NONE /\ client.limit[1] \in 1..MaxLimit) =>
        LET page == client.pages[1]
            E == Eligible(posts, follows, client.did, client.start)
        IN  /\ Len(page) = Min(client.limit[1], Cardinality(E))
            /\ PostsIn(page) \subseteq E
            /\ Cardinality(PostsIn(page)) = Len(page)
            /\ \A i \in 1..(Len(page) - 1) : page[i].created_at >= page[i + 1].created_at
            /\ \A e \in E \ PostsIn(page) :
                  \A i \in 1..Len(page) : e.created_at <= page[i].created_at

\* C9: when the eligible posts have pairwise distinct created_at, the pages
\* of a walk along the returned cursors hold the eligible posts newest first,
\* each once, limit posts to a page until none is left.
C9_PaginationWalksFeed ==
    LET E == Eligible(posts, follows, client.did, client.start)
    IN  (/\ client.status = 200
         /\ client.limit # NONE /\ client.limit[1] \in 1..MaxLimit
         /\ \A a, b \in E : a # b => a.created_at # b.created_at) =>
            /\ PostsIn(Walk) \subseteq E
            /\ \A i \in 1..(Len(Walk) - 1) : Walk[i].created_at > Walk[i + 1].created_at
            /\ \A e \in E \ PostsIn(Walk) :
                  \A i \in 1..Len(Walk) : e.created_at < Walk[i].created_at
            /\ \A k \in 1..Len(client.pages) :
                  Len(client.pages[k]) =
                      Min(client.limit[1], Cardinality(E) - Before(client.pages, k))


(***************************************************************************)
(* Specification SpecBulk: a store that holds about as many posts as a     *)
(* page may, and requests with every kind of limit.                        *)
(***************************************************************************)
\* limit absent, negative, zero, within 1..100 and above 100
BulkLimits == {NONE, Some(0 - 1), Some(0), Some(1), Some(MaxLimit), Some(MaxLimit + 50)}

\* a token that is good until after the bulk store was written
BulkHeader ==
    Header(TRUE, Token(3, [iss |-> "alice", aud |-> ServiceDid, exp |-> MaxBulk], TRUE, TRUE))

\* bob's k-th post, created at instant k, as the firehose handler writes it
BulkPost(k, clock) ==
    PostOfEvent(Commit("bob", POST, k, "create", PlainPost(k), CID), clock)

\* alice's follow of bob, as the firehose handler writes it
BulkFollow(clock) ==
    FollowOfEvent(Commit("alice", FOLLOW, 1, "create", FollowRec("bob"), CID), clock)

\* the firehose delivers bob's latest post
BulkIngest ==
    /\ HandleEvent(Commit("bob", POST, MaxBulk, "create", PlainPost(MaxBulk), CID), TRUE)
    /\ UNCHANGED <<log, server>>

BulkRequest ==
    /\ \E limit \in BulkLimits : get_feed_skeleton(BulkHeader, limit, NONE, TRUE)
    /\ UNCHANGED <<log, server>>

BulkTaskCheck == \E i \in DOMAIN tasks : BackfillCheck(i, TRUE)

NextBulk ==
    \/ BulkIngest
    \/ BulkRequest
    \/ BulkTaskCheck

\* alice follows bob, and the firehose has delivered none, one, two or all
\* but the latest of bob's posts
InitBulk ==
    /\ now = MaxBulk + 1
    /\ posts \in {{BulkPost(k, now) : k \in 1..n} : n \in {0, 1, 2, MaxBulk - 1}}
    /\ follows = {BulkFollow(now)}
    /\ active_users = {}
    /\ tasks = [i \in 1..MaxTasks |-> NoTask]
    /\ uuid = 0
    /\ client = NoClient
    /\ sync = NoSync
    /\ applied = [rows |-> << >>, again |-> {}]
    /\ reposts = [seen |-> {}, written |-> {}]
    /\ log = NoLog
    /\ server = NoServer

SpecBulk == InitBulk /\ [][NextBulk]_vars

\* C7: whatever the limit of the request (absent, zero, negative, within
\* 1..100, above 100), the page is a result of the feed query run with
\* min(limit or 50, 100), and the response holds at most 100 posts.
C7_PageSizeBound ==
    client.status = 200 =>
        LET limit == IF client.limit = NONE THEN DefaultLimit ELSE client.limit[1]
        IN  /\ LastPage \in get_following_posts(posts, follows, client.did,
                                                Min(limit, MaxLimit), NONE, now)
            /\ Len(LastPage) <= MaxLimit


(***************************************************************************)
(* Specification SpecSync: the firehose writes follows and posts, and a    *)
(* caller reconciles alice's follows with a target set.                    *)
(***************************************************************************)
SyncEvents ==
    {Commit("alice", FOLLOW, 1, "create", FollowRec(target), CID) :
        target \in {"bob", "carol"}}
    \cup {Commit("alice", FOLLOW, 2, "create", FollowRec("bob"), CID),
          Commit("alice", FOLLOW, 1, "delete", FollowRecNoSubject, CID),
          Commit("carol", FOLLOW, 1, "create", FollowRec("bob"), CID),
          Commit("bob", POST, 1, "create", PlainPost(0), CID),
          Commit("carol", POST, 1, "create", PlainPost(1), CID)}

SyncIngest ==
    /\ \E ev \in SyncEvents : HandleEvent(ev, TRUE)
    /\ UNCHANGED <<log, server>>

SyncCalled ==
    \E current \in SUBSET {"bob", "carol"}, dbOk \in BOOLEAN : SyncCall("alice", current, dbOk)

SyncLoop == \E dbOk \in BOOLEAN : SyncStep(dbOk)

NextSync ==
    \/ SyncIngest
    \/ SyncCalled
    \/ SyncLoop

SpecSync == Init /\ [][NextSync]_vars

\* C10: once sync_follows_for_user(did, T) has returned success, and as long
\* as no one else writes did's follows from the call on, no follow row of did
\* has a target outside T, every follow row of did that was there before the
\* call with a target in T is still there, and no feed of did holds a post of
\* an author outside T.
C10_SyncCorrectness ==
    (sync.pc = "ok" /\ sync.clean) =>
        /\ \A f \in FollowsOf(follows, sync.did) : f.target_did \in sync.current
        /\ \A f \in sync.before : f.target_did \in sync.current => f \in follows
        /\ \A resp \in generate_feed(posts, follows, sync.did, NONE, NONE, now) :
              \A i \in 1..Len(resp.page) : resp.page[i].author_did \in sync.current

\* a call returned success after it removed the row of one target and kept
\* the row of another, while the store holds a post of the removed target
C10_Witness ==
    /\ sync.pc = "ok" /\ sync.clean
    /\ \E f \in sync.before : f.target_did \notin sync.current
    /\ \E f \in sync.before : f.target_did \in sync.current
    /\ \E r \in posts : r.author_did \notin sync.current
    /\ \E resp \in generate_feed(posts, follows, sync.did, NONE, NONE, now) : Len(resp.page) > 0


(***************************************************************************)
(* Specification SpecDelete: the firehose creates and deletes posts and    *)
(* follows in any order while the clock runs.                              *)
(***************************************************************************)
DeleteEvents ==
    {Commit("bob", POST, rkey, op, PlainPost(rkey), CID) :
        rkey \in {1, 2}, op \in {"create", "delete"}}
    \cup {Commit("alice", FOLLOW, 1, op, FollowRec("bob"), CID) : op \in {"create", "delete"}}

IsDelete(ev) == ev.kind = "commit" /\ ev.collection \in {POST, FOLLOW} /\ ev.operation = "delete"

\* the log after the handler processed ev
LogEvent(ev, dbOk) ==
    LET uri == EventUri(ev)
        missing == RowsOf(posts \cup follows, uri) = {}
    IN  log' = [log EXCEPT
                  !.early = IF IsDelete(ev) /\ missing /\ Executed(dbOk, 0) = "Ok"
                            THEN @ \cup {uri} ELSE @,
                  !.gone = IF IsDelete(ev) /\ ev.collection = POST /\ dbOk
                           THEN @ \cup {uri}
                           ELSE @ \ {w.uri : w \in EventWrites(ev, now, dbOk)}]

DeleteIngest ==
    \E ev \in DeleteEvents, dbOk \in BOOLEAN :
        HandleEvent(ev, dbOk) /\ LogEvent(ev, dbOk) /\ UNCHANGED server

NextDelete ==
    \/ Tick
    \/ DeleteIngest

SpecDelete == Init /\ [][NextDelete]_vars

\* a delete commit for a uri that has no row is handled with a working database
DeleteOfMissing(ev) ==
    /\ IsDelete(ev)
    /\ RowsOf(posts \cup follows, EventUri(ev)) = {}
    /\ HandleEvent(ev, TRUE)

\* a create commit for a uri whose delete came first is handled
CreateAfterDelete(ev) ==
    /\ ev.operation = "create"
    /\ EventUri(ev) \in log.early
    /\ HandleEvent(ev, TRUE)

\* C11: delete_post and delete_follow of a uri that has no row succeed and
\* leave the tables as they are, also when the consumer handles such a
\* delete commit; a create commit for that uri handled later inserts its row.
C11_DeleteSafety ==
    /\ [](\A ev \in DeleteEvents :
            RowsOf(posts \cup follows, EventUri(ev)) = {} =>
                /\ delete_post(posts, EventUri(ev)) = posts
                /\ delete_follow(follows, EventUri(ev)) = follows
                /\ Executed(TRUE, 0) = "Ok")
    /\ [][\A ev \in DeleteEvents :
            /\ DeleteOfMissing(ev) =>
                  posts' = posts /\ follows' = follows /\ active_users' = active_users
            /\ CreateAfterDelete(ev) =>
                  RowsOf(posts' \cup follows', EventUri(ev)) = EventWrites(ev, now, TRUE)]_vars

\* a post and a follow whose delete came before the create have their rows,
\* next to a row that was there when the early delete was handled
C11_Witness ==
    /\ \E u \in log.early : u[2] = POST /\ RowsOf(posts, u) # {}
    /\ \E u \in log.early : u[2] = FOLLOW /\ RowsOf(follows, u) # {}
    /\ Cardinality(posts) = 2

(***************************************************************************)
(* Specification SpecGone: the firehose creates and deletes posts, a       *)
(* backfill task writes the follows of a requester and the posts of the    *)
(* author they follow, and a client reads the feed.                        *)
(***************************************************************************)
GoneEvents ==
    {Commit("bob", POST, 1, op, PlainPost(1), CID) : op \in {"create", "delete"}}
    \cup {Commit("bob", POST, 2, "create", PlainPost(2), CID),
          Commit("alice", FOLLOW, 1, "create", FollowRec("bob"), CID)}

GoneFeedResponses ==
    {AuthorFeedResponse(FALSE, NONE, NONE),
     AuthorFeedResponse(TRUE,
        Some(<<FeedItem(AtUri("bob", POST, 1), CID, PlainPost(1), FALSE)>>), NONE)}

\* the rows one page of backfill_posts writes
PageWrites(t, resp, fails) ==
    IF ~resp.ok \/ resp.feed = NONE THEN {}
    ELSE PostsOfPage(resp.feed[1], 1,
            [table |-> posts, fetched |-> t.fetched, done |-> FALSE,
             writes |-> {}, seen |-> {}, marked |-> {}],
            [target |-> Head(t.targets), clock |-> now,
             limit |-> t.limit, fails |-> fails]).writes

GoneIngest ==
    \E ev \in GoneEvents, dbOk \in BOOLEAN :
        HandleEvent(ev, dbOk) /\ LogEvent(ev, dbOk) /\ UNCHANGED server

GoneRequest ==
    /\ \E cursor \in {NONE, client.cursor} :
          get_feed_skeleton(GoodHeader("alice"), Some(1), cursor, TRUE)
    /\ UNCHANGED <<log, server>>

GoneTaskPosts ==
    \E i \in DOMAIN tasks, resp \in GoneFeedResponses :
        /\ BackfillPosts(i, resp, {})
        /\ log' = [log EXCEPT !.gone = @ \ {w.uri : w \in PageWrites(tasks[i], resp, {})}]
        /\ UNCHANGED server

NextGone ==
    \/ GoneIngest
    \/ GoneRequest
    \/ FeedTaskCheck
    \/ FeedTaskFollows
    \/ FeedTaskSelect
    \/ GoneTaskPosts

SpecGone == Init /\ [][NextGone]_vars

\* C20: a post uri whose last processed commit is a delete, with no insert
\* by a backfill since, is in no feed the store can produce and in no
\* response a client receives.
C20_DeleteRemovesFromFeed ==
    /\ \A resp \in generate_feed(posts, follows, "alice", NONE, NONE, now) :
          \A i \in 1..Len(resp.feed) : resp.feed[i] \notin log.gone
    /\ client.status = 200 => \A i \in 1..Len(Walk) : Walk[i].uri \notin log.gone

\* a post was deleted and the client then received a feed that holds another
\* post of the same author
C20_Witness ==
    /\ AtUri("bob", POST, 1) \in log.gone
    /\ client.status = 200
    /\ Len(Walk) > 0


(***************************************************************************)
(* Specification SpecAuth: requests with every kind of Authorization       *)
(* header and token reach the feed endpoint while the clock runs and the   *)
(* firehose writes a follow.                                               *)
(***************************************************************************)
OtherDid == "did:web:other"

\* expiry instants in whole seconds: before, at and after the clock's second
AuthExps == 0..(now_secs(MaxCreated + MaxNow) + 1)

\* a token of alice for this service, resolvable and well signed
AuthToken(exp) == Token(3, [iss |-> "alice", aud |-> ServiceDid, exp |-> exp], TRUE, TRUE)

Later == now_secs(MaxCreated + MaxNow) + 1

\* tokens: good but for the expiry; for another audience; not resolvable;
\* with a signature that does not verify (a tampered payload); of two parts;
\* without a claim
AuthTokens ==
    {AuthToken(x) : x \in AuthExps}
    \cup {Token(3, [iss |-> "alice", aud |-> OtherDid, exp |-> x], TRUE, TRUE) :
            x \in {0, Later}}
    \cup {[AuthToken(Later) EXCEPT !.resolves = FALSE],
          [AuthToken(Later) EXCEPT !.sig = FALSE],
          [AuthToken(Later) EXCEPT !.parts = 2]}
    \cup {Token(3, c, TRUE, TRUE) :
            c \in {[aud |-> ServiceDid, exp |-> Later], [iss |-> "alice", exp |-> Later],
                   [iss |-> "alice", aud |-> ServiceDid]}}

\* headers: absent, unreadable, "Bearer <token>", and the bare "<token>"
AuthHeaders ==
    {NoHeader, UnreadableHeader} \cup {Header(b, t) : b \in BOOLEAN, t \in AuthTokens}

AuthEvents == {Commit("alice", FOLLOW, 1, "create", FollowRec("bob"), CID)}

AuthIngest ==
    /\ \E ev \in AuthEvents : HandleEvent(ev, TRUE)
    /\ UNCHANGED <<log, server>>

AuthRequest ==
    \E h \in AuthHeaders, dbOk \in BOOLEAN :
        /\ get_feed_skeleton(h, Some(1), NONE, dbOk)
        /\ log' = [log EXCEPT !.request = [header |-> h, at |-> now,
                                            status |-> client'.status,
                                            error |-> client'.error]]
        /\ UNCHANGED server

NextAuth ==
    \/ Tick
    \/ AuthIngest
    \/ AuthRequest
    \/ PagingTaskCheck
    \/ PagingTaskFollows

SpecAuth == Init /\ [][NextAuth]_vars

\* the last request carried a header value, read as a token
Requested == log.request.at # NoInstant
Carried == log.request.header.kind = "value"
Sent == log.request.header.token

\* C12: a 200 response answers a request whose token has aud equal to the
\* service DID and exp strictly greater than the second of the request.
C12_AuthTotality ==
    (Requested /\ log.request.status = 200) =>
        /\ Carried
        /\ Has(Sent.claims, "aud") /\ Sent.claims.aud = ServiceDid
        /\ Has(Sent.claims, "exp") /\ Sent.claims.exp > now_secs(log.request.at)

\* what the claim lists: the token is not of three parts, lacks a claim, names
\* another audience, expired before the clock's second, or its signature does
\* not verify against the key the issuer's DID resolves to
Rejectable(token, clock) ==
    \/ token.parts # 3
    \/ ~Has(token.claims, "iss") \/ ~Has(token.claims, "aud") \/ ~Has(token.claims, "exp")
    \/ token.claims.aud # ServiceDid
    \/ token.claims.exp < now_secs(clock)
    \/ ~token.resolves \/ ~token.sig

\* C13: validate_jwt returns an error for a token of other than three parts,
\* without iss, aud or exp, with another audience, with exp in the past or
\* with a signature that does not verify, and the endpoint answers such a
\* request with 401; any other token yields its claims {iss, aud, exp}, and
\* only such a token is answered with 200.
C13_AuthRejections ==
    /\ \A t \in AuthTokens :
          IF Rejectable(t, now)
          THEN ~validate_jwt(t, ServiceDid, now).ok
          ELSE validate_jwt(t, ServiceDid, now) =
                  [ok |-> TRUE, error |-> "", iss |-> t.claims.iss,
                   aud |-> t.claims.aud, exp |-> t.claims.exp]
    /\ (Requested /\ Carried) =>
          IF Rejectable(Sent, log.request.at)
          THEN log.request.status = 401
          ELSE log.request.status \in {200, 500}
    /\ (Requested /\ log.request.status = 200) =>
          Carried /\ ~Rejectable(Sent, log.request.at)

\* a token with a tampered payload was answered with 401
C13_Witness ==
    /\ Requested /\ Carried
    /\ Sent.parts = 3 /\ Sent.resolves /\ ~Sent.sig
    /\ Has(Sent.claims, "exp") /\ Sent.claims.exp > now_secs(log.request.at)
    /\ log.request.status = 401

\* C14: a request without an Authorization header, with one that is not
\* readable as a string, or with one that is not a "Bearer <token>" value is
\* answered with 401 and the error AuthenticationRequired.
C14_HeaderRequired ==
    (Requested /\ (~Carried \/ ~log.request.header.bearer)) =>
        /\ log.request.status = 401
        /\ log.request.error = "AuthenticationRequired"

\* C14 as amended: a request without an Authorization header or with one
\* that is not readable as a string is answered with 401 and the error
\* AuthenticationRequired; a header value is read as the token, without its
\* "Bearer " prefix when it has one, and is answered so unless the token
\* passes validate_jwt.
C14_HeaderRequiredOrToken ==
    (Requested /\ (~Carried \/ Rejectable(Sent, log.request.at))) =>
        /\ log.request.status = 401
        /\ log.request.error = "AuthenticationRequired"

\* a header value that is neither "Bearer <token>" nor a token was answered
\* with 401
C14_Witness ==
    /\ Requested /\ Carried
    /\ ~log.request.header.bearer /\ Sent.parts # 3
    /\ log.request.status = 401

\* C15: after an authenticated feed request by d, active_users holds a row
\* of d whose last_feed_request is the time of that request.
C15_ActiveUserRecorded ==
    (Requested /\ log.request.status \in {200, 500}) =>
        \E r \in active_users :
            /\ r.did = Sent.claims.iss
            /\ r.last_feed_request = to_rfc3339(log.request.at)

\* the spawned task finishes its count query; it goes on to backfill_follows
CheckDone(i) == tasks[i].pc = "check" /\ tasks'[i].pc # "check"
BackfillStarted(i) == tasks[i].pc = "check" /\ tasks'[i].pc = "follows"

\* C16: the task a feed request spawns starts a backfill exactly when the
\* store holds no follow row of the requester at the time of its check, and
\* never for a requester with a follow row, also when the count query fails.
C16_BackfillTrigger ==
    [][\A i \in DOMAIN tasks :
          CheckDone(i) =>
              (BackfillStarted(i) <=> CountFollows(follows, tasks[i].did) = 0)]_vars

\* C17: the request that spawns the backfill task is answered in the same
\* step, from the store as it is, the task not having run: the page holds
\* eligible posts of the store unchanged by the step, and the task is at its
\* first await, so the response waits for nothing the task does.
C17_FireAndForget ==
    [][\A cursor \in {NONE, client.cursor} :
          get_feed_skeleton(GoodHeader("alice"), Some(1), cursor, TRUE) =>
              LET E == Eligible(posts, follows, "alice", cursor_time(cursor, now))
                  page == client'.pages[Len(client'.pages)]
              IN  /\ client'.status = 200
                  /\ posts' = posts /\ follows' = follows
                  /\ PostsIn(page) \subseteq E
                  /\ E # {} => Len(page) > 0
                  /\ \E i \in DOMAIN tasks :
                        /\ tasks[i].pc = "idle"
                        /\ tasks'[i].pc = "check" /\ tasks'[i].did = "alice"]_vars

\* the client has its response while the task spawned for it is running the
\* backfill, waiting for the remote API
C17_Witness ==
    /\ client.status = 200
    /\ \E i \in DOMAIN tasks : tasks[i].pc = "follows" /\ tasks[i].did = client.did


(***************************************************************************)
(* Specification SpecRace: the steps of SpecBackfill with room for a       *)
(* request to be handled while the task of an earlier one still runs.      *)
(***************************************************************************)
\* tasks alive at the same time
RaceSlots == MaxTasks + 1

InitRace ==
    /\ now = MaxCreated
    /\ posts = {}
    /\ follows = {}
    /\ active_users = {}
    /\ tasks = [i \in 1..RaceSlots |-> NoTask]
    /\ uuid = 0
    /\ client = NoClient
    /\ sync = NoSync
    /\ applied = [rows |-> << >>, again |-> {}]
    /\ reposts = [seen |-> {}, written |-> {}]
    /\ log = NoLog
    /\ server = NoServer

SpecRace == InitRace /\ [][NextBackfill]_vars

\* the tasks that run the backfill of did
ActiveBackfills(did) ==
    {i \in DOMAIN tasks : tasks[i].pc \in {"follows", "select", "posts"} /\ tasks[i].did = did}

\* C18: at most one backfill task of a requester is active at any time.
C18_OneBackfillPerRequester ==
    \A d \in DIDs : Cardinality(ActiveBackfills(d)) <= 1

\* C19: when the store holds just one follow F -> T and one post P of T
\* created before now, generate_feed for F without a cursor, with no limit or
\* any limit from 1 up, returns the one entry P.uri and the cursor
\* P.created_at.
C19_PostCreateReachesFeed ==
    \A f \in follows, p \in posts :
        (/\ follows = {f} /\ posts = {p}
         /\ f.target_did = p.author_did
         /\ parse_from_rfc3339(p.created_at) < now) =>
            \A limit \in {NONE, Some(1), Some(2), Some(MaxLimit), Some(MaxLimit + 1)} :
                generate_feed(posts, follows, f.follower_did, limit, NONE, now) =
                    {[feed |-> <<p.uri>>, cursor |-> Some(p.created_at),
                      page |-> <<RowToPost(p)>>]}

\* the store holds alice's follow of bob and one post of bob that was created
\* before now and indexed later than it was created
C19_Witness ==
    /\ Cardinality(follows) = 1 /\ Cardinality(posts) = 1
    /\ \E f \in follows, p \in posts :
          /\ f.target_did = p.author_did
          /\ parse_from_rfc3339(p.created_at) < now
          /\ p.created_at # p.indexed_at


(***************************************************************************)
(* Specification SpecRetention: the firehose writes posts and a follow,    *)
(* feed requests are recorded, the clock moves over the retention window   *)
(* and the retention loop of main deletes the old posts.                   *)
(***************************************************************************)
\* the instant this specification starts at: the window lies behind it
RetentionStart == hours(48) + MaxCreated

\* the instants the clock is looked at: the start, and the instants around
\* the end of the window of a post indexed at the start
RetentionInstants ==
    {RetentionStart + k : k \in 0..MaxNow}
    \cup {RetentionStart + hours(48) + k : k \in (0 - 1)..MaxNow}

RetentionEvents ==
    {Commit("bob", POST, 1, "create", PlainPost(MaxCreated), CID),
     Commit("alice", FOLLOW, 1, "create", FollowRec("bob"), CID)}

InitRetention ==
    /\ now = RetentionStart
    /\ posts = {}
    /\ follows = {}
    /\ active_users = {}
    /\ tasks = [i \in 1..MaxTasks |-> NoTask]
    /\ uuid = 0
    /\ client = NoClient
    /\ sync = NoSync
    /\ applied = [rows |-> << >>, again |-> {}]
    /\ reposts = [seen |-> {}, written |-> {}]
    /\ log = NoLog
    /\ server = NoServer

RetentionCall(i) ==
    \E dbOk \in BOOLEAN :
        /\ RetentionCleanup(i, dbOk)
        /\ log' = [log EXCEPT !.expired = @ \cup {p.uri : p \in posts \ posts'}]

NextRetention ==
    \/ \E ev \in RetentionEvents : HandleEvent(ev, TRUE) /\ UNCHANGED <<log, server>>
    \/ RecordRequest("alice", TRUE)
    \/ \E t \in RetentionInstants : Elapse(t)
    \/ \E i \in DOMAIN server.retention : RetentionTick(i)
    \/ \E i \in DOMAIN server.retention : RetentionCall(i)

SpecRetention == InitRetention /\ [][NextRetention]_vars

\* the timer of a waiting loop fires, and a call of cleanup_old_posts returns
SpecRetentionFair ==
    /\ SpecRetention
    /\ \A i \in DOMAIN NoServer.retention :
          WF_vars(RetentionTick(i)) /\ WF_vars(RetentionCall(i))

\* the instant a stored timestamp names
InstantOf(text) == parse_from_rfc3339(text)

\* the windows cleanup_old_posts is asked about
RetentionWindows == {0, 1, 47, 48, 49}

\* loop i made a call of cleanup_old_posts in this step, with this result
Called(i, result) ==
    /\ server.retention[i].pc = "call"
    /\ server'.retention[i].pc # "call"
    /\ server'.retention[i].last = result

\* C23: cleanup_old_posts(h) at the instant now leaves exactly the posts with
\* indexed_at >= now - h hours, each as it was; a call of the retention loop
\* is the call with h = 48, and it changes neither follows nor active_users.
C23_PostRetention ==
    /\ [](\A h \in RetentionWindows :
            cleanup_old_posts(posts, h, now) =
                {p \in posts : InstantOf(p.indexed_at) >= now - hours(h)})
    /\ [][\A i \in DOMAIN server.retention :
            Called(i, "Ok") =>
                /\ posts' = {p \in posts : InstantOf(p.indexed_at) >= now - hours(48)}
                /\ follows' = follows
                /\ active_users' = active_users]_vars

\* retention deleted bob's post, and the post was indexed again later; the
\* follow and the active user are still there
C23_Witness ==
    /\ AtUri("bob", POST, 1) \in log.expired
    /\ posts # {}
    /\ follows # {}
    /\ active_users # {}

\* C28: the retention loop never leaves its cycle of waiting for the timer
\* and calling cleanup_old_posts, and after a call that failed it gets to
\* the next call.
C28_RetentionLoopTolerant ==
    /\ [](\A i \in DOMAIN server.retention : server.retention[i].pc \in {"tick", "call"})
    /\ \A i \in DOMAIN NoServer.retention :
          (server.retention[i].pc = "tick" /\ server.retention[i].last = "Err")
              ~> (server.retention[i].pc = "call")

\* the loop is at its next call after a call that failed
C28_Witness ==
    \E i \in DOMAIN server.retention :
        server.retention[i].pc = "call" /\ server.retention[i].last = "Err"

\* C29: a user who requested the feed within the last 7 days (every row of
\* this specification: its clock spans less than 7 days) eventually has
\* last_follow_sync stamped.
C29_ReconciliationRuns ==
    \A did \in DIDs :
        (\E r \in active_users : r.did = did)
            ~> (\E r \in active_users : r.did = did /\ r.last_follow_sync # NONE)

(***************************************************************************)
(* Specification SpecConsumer: the outer loop of main starts the consumer, *)
(* the stream delivers events of every kind, connections fail and streams  *)
(* end, and the loop sleeps and starts the consumer again.  The            *)
(* environment ends at most MaxRuns - 1 runs.                              *)
(***************************************************************************)
ConsumerEvents ==
    {Commit("bob", POST, 1, op, PlainPost(MaxCreated), CID) :
        op \in {"create", "update", "delete"}}
    \cup {Commit("alice", FOLLOW, 1, "create", FollowRec("bob"), CID),
          Commit("alice", FOLLOW, 1, "update", FollowRec("carol"), CID),
          Commit("alice", FOLLOW, 2, "update", FollowRec("carol"), CID),
          Commit("bob", LIKE, 1, "create", PlainPost(MaxCreated), CID)}
    \cup OtherKinds

\* the event makes the handler run a statement
RunsStatement(ev) ==
    /\ ev.kind = "commit"
    /\ ev.collection \in {POST, FOLLOW}
    /\ ev.operation \in {"create", "delete"}
    /\ ~(ev.collection = POST /\ ev.operation = "create" /\ Has(ev.record, "subject"))

\* whether the environment may still end the current run
Far == server.consumer.runs < MaxRuns

\* the consumer dispatches ev
Dispatch(ev, dbOk) ==
    /\ ConsumerDispatch(ev, dbOk, Far)
    /\ log' = [log EXCEPT !.event = ev,
                          !.failed = RunsStatement(ev) /\ ~dbOk,
                          !.survived = @ \/ log.failed]

NextConsumer ==
    \/ \E regOk \in BOOLEAN : ConsumerStart(regOk, server.consumer.runs + 1 < MaxRuns)
    \/ \E ok \in BOOLEAN : ConsumerConnect(ok, Far)
    \/ \E ev \in ConsumerEvents, dbOk \in BOOLEAN : Dispatch(ev, dbOk)
    \/ \E result \in {"Err", "Ok"} : ConsumerEnd(result, Far)
    \/ ConsumerSleep
    \/ RecordRequest("alice", TRUE)

SpecConsumer == Init /\ [][NextConsumer]_vars

\* the sleep makes progress and returns, the outer loop calls start(), and
\* the crate's attempt to connect comes to an end
SpecConsumerFair ==
    /\ SpecConsumer
    /\ WF_vars(ConsumerSleep)
    /\ WF_vars(\E regOk \in BOOLEAN : ConsumerStart(regOk, server.consumer.runs + 1 < MaxRuns))
    /\ WF_vars(\E ok \in BOOLEAN : ConsumerConnect(ok, Far))

\* the events the handler is to ignore
Ignored(ev) ==
    \/ ev.kind \in {"account", "identity", "delete"}
    \/ ev.kind = "commit" /\ ev.collection \notin {POST, FOLLOW}
    \/ ev.kind = "commit" /\ ev.collection \in {POST, FOLLOW} /\ ev.operation = "update"

\* C24: dispatching an update of a post or of a follow, a commit of another
\* collection, or an account, identity or delete event changes no row of
\* posts, follows or active_users.
C24_IgnoredEvents ==
    [][\A ev \in ConsumerEvents, dbOk \in BOOLEAN :
         (Ignored(ev) /\ Dispatch(ev, dbOk)) =>
             /\ posts' = posts
             /\ follows' = follows
             /\ active_users' = active_users]_vars

\* an update of a follow was dispatched last, with rows in every table
C24_Witness ==
    /\ log.event.kind = "commit" /\ log.event.collection = FOLLOW
    /\ log.event.operation = "update"
    /\ posts # {} /\ follows # {} /\ active_users # {}

\* C25: handle_event returns Ok for every event, also when its statement
\* fails; the failed event changes no table; the run goes on, so that the
\* next event of the stream is dispatched.
C25_HandlerErrorTolerated ==
    [][\A ev \in ConsumerEvents, dbOk \in BOOLEAN :
         Dispatch(ev, dbOk) =>
             /\ handle_event(ev, dbOk) = "Ok"
             /\ ~dbOk => (posts' = posts /\ follows' = follows)
             /\ server' = server
             /\ server'.consumer.pc = "connected"]_vars

\* after an event whose insert failed, a later create was dispatched and
\* its row is in the store
C25_Witness ==
    /\ log.survived
    /\ ~log.failed
    /\ log.event.kind = "commit" /\ log.event.operation = "create"
    /\ log.event.collection = POST
    /\ RowsOf(posts, EventUri(log.event)) # {}

\* the run of the consumer came to an end in this step
RunEnded ==
    /\ server.consumer.pc \in {"start", "connecting", "connected"}
    /\ server'.consumer.pc \notin {"start", "connecting", "connected"}

\* C26: when a run of the consumer ends, with an error or without, the loop
\* sleeps 5 s; the sleep ends only after its 5 seconds, and then start() is
\* called again; a sleeping consumer always gets to connecting again.
C26_Reconnection ==
    /\ [][/\ RunEnded => (server'.consumer.pc = "sleeping" /\ server'.consumer.left = 5)
          /\ (server.consumer.pc = "sleeping" /\ server'.consumer.pc = "sleeping")
                => server'.consumer.left \in {server.consumer.left, server.consumer.left - 1}
          /\ (server.consumer.pc = "sleeping" /\ server'.consumer.pc # "sleeping")
                => (server.consumer.left = 0 /\ server'.consumer.pc = "start")
          /\ (server.consumer.pc = "start" /\ ~RunEnded)
                => server'.consumer.pc \in {"start", "connecting"}]_vars
    /\ (server.consumer.pc = "sleeping") ~> (server.consumer.pc = "connecting")

\* the consumer connects again after a run that returned without error
C26_Witness ==
    /\ server.consumer.pc = "connecting"
    /\ server.consumer.runs > 1
    /\ server.consumer.result = "Ok"

\* C27: one post-retention loop runs in the process, however often the
\* consumer was started.
C27_OneRetentionTask == Len(server.retention) = 1

(***************************************************************************)
(* Specification SpecReconcile: alice and carol have asked for the feed,   *)
(* the firehose writes their follows, and a caller runs passes of          *)
(* verify_active_user_follows against a remote API that answers, fails or  *)
(* pages.                                                                  *)
(***************************************************************************)
ReconcileEvents ==
    {Commit("alice", FOLLOW, 1, "create", FollowRec("carol"), CID),
     Commit("carol", FOLLOW, 1, "create", FollowRec("bob"), CID)}

ReconcileResponses ==
    {FollowsResponse(FALSE, NONE, NONE),
     FollowsResponse(TRUE, NONE, NONE),
     FollowsResponse(TRUE, Some(<<"bob">>), NONE),
     FollowsResponse(TRUE, Some(<<"carol">>), Some("c1"))}

\* the store an earlier run has left: the 7 days of get_active_users lie
\* behind the start; alice asked for the feed an instant ago, carol 7 days
\* ago, together with alice, or just now; a post of bob was indexed more than
\* 48 hours ago
InitReconcile ==
    /\ now = hours(24 * 7) + MaxCreated
    /\ posts = {PostOfEvent(Commit("bob", POST, 2, "create", PlainPost(0), CID),
                            now - hours(48) - 1)}
    /\ follows = {}
    /\ \E t \in {now - hours(24 * 7), now - 1, now} :
          active_users =
              record_feed_request(record_feed_request({}, "alice", now - 1), "carol", t)
    /\ tasks = [i \in 1..MaxTasks |-> NoTask]
    /\ uuid = 0
    /\ client = NoClient
    /\ sync = NoSync
    /\ applied = [rows |-> << >>, again |-> {}]
    /\ reposts = [seen |-> {}, written |-> {}]
    /\ log = NoLog
    /\ server = NoServer

NextReconcile ==
    \/ \E ev \in ReconcileEvents : HandleEvent(ev, TRUE) /\ UNCHANGED <<log, server>>
    \/ \E dbOk \in BOOLEAN : PassStart(dbOk)
    \/ \E resp \in ReconcileResponses : PassFetch(resp)
    \/ \E dbOk \in BOOLEAN : PassSync(dbOk)
    \/ \E dbOk \in BOOLEAN : SyncStep(dbOk)
    \/ \E dbOk \in BOOLEAN : PassStamp(dbOk)

SpecReconcile == InitReconcile /\ [][NextReconcile]_vars

\* the users of a list
Listed(list) == {list[k] : k \in 1..Len(list)}

\* the stamp of user_did was written in this step
Stamped(user_did) ==
    \E r \in active_users, q \in active_users' :
        r.did = user_did /\ q.did = user_did /\ q.last_follow_sync # r.last_follow_sync

\* C30: in a pass, a user is stamped only when their paging ended without
\* error and their sync_follows_for_user returned Ok in this pass, the stamp
\* being last_follow_sync = now on that user's row alone; and a pass the
\* query started gets through all its users whatever failed for one of them.
C30_ReconciliationPass ==
    /\ [](server.pass.pc \in {"fetch", "sync", "done", "failed"} =>
            /\ server.pass.stamped \subseteq server.pass.fetched \cap server.pass.synced
            /\ server.pass.pc = "failed" => server.pass.list = << >>
            /\ server.pass.pc = "done" =>
                  /\ server.pass.users = << >>
                  /\ server.pass.synced \subseteq server.pass.fetched
                  /\ server.pass.fetched \subseteq Listed(server.pass.list))
    /\ [][\A u \in DIDs :
            Stamped(u) =>
                /\ server.pass.pc = "sync" /\ u = Head(server.pass.users)
                /\ u \in server.pass.fetched /\ sync.pc = "ok"
                /\ active_users' = update_follow_sync(active_users, u, now)
                /\ follows' = follows]_vars

\* a pass is through: the fetch of its first user failed, the second user
\* was synced and stamped
C30_Witness ==
    /\ server.pass.pc = "done"
    /\ Len(server.pass.list) = 2
    /\ server.pass.list[1] \notin server.pass.fetched
    /\ server.pass.list[2] \in server.pass.stamped
    /\ \E r \in active_users :
          r.did = server.pass.list[2] /\ r.last_follow_sync = Some(to_rfc3339(now))

(***************************************************************************)
(* Specification SpecShared: everything that writes posts and follows, at  *)
(* the same time.  The consumer writes a post and a follow again and       *)
(* again, alice asks for her feed and sets off a backfill, a retention     *)
(* loop runs and sync_follows_for_user is called for alice.  alice asks    *)
(* again when her backfill is over.                                        *)
(***************************************************************************)
SharedEvents ==
    {Commit("bob", POST, 1, "create", PlainPost(0), CID),
     Commit("alice", FOLLOW, 1, "create", FollowRec("bob"), CID),
     Commit("alice", FOLLOW, 1, "create", FollowRec("carol"), CID)}

SharedResponses ==
    {FollowsResponse(FALSE, NONE, NONE), FollowsResponse(TRUE, Some(<<"bob">>), NONE)}

\* a token that outlives the run
SharedHeader == Header(TRUE, AuthToken(now_secs(now) + 1))

\* alice asks for her feed when no backfill is at work
SharedRequest ==
    /\ \A i \in DOMAIN tasks : tasks[i].pc = "idle"
    /\ get_feed_skeleton(SharedHeader, Some(1), NONE, TRUE)
    /\ UNCHANGED <<log, server>>

\* carol has been away for 7 days
InitShared ==
    /\ InitReconcile
    /\ \E r \in active_users : r.did = "carol" /\ r.last_feed_request = to_rfc3339(MaxCreated)

NextShared ==
    \/ \E ev \in SharedEvents : HandleEvent(ev, TRUE) /\ UNCHANGED <<log, server>>
    \/ SharedRequest
    \/ FeedTaskCheck
    \/ FeedTaskFollows
    \/ FeedTaskSelect
    \/ GoneTaskPosts
    \/ RetentionTick(1)
    \/ RetentionCall(1)
    \/ SyncCall("alice", {"bob"}, TRUE)
    \/ SyncStep(TRUE)

SpecShared == InitShared /\ [][NextShared]_vars

\* C21: in every reachable state, whatever the interleaving of the consumer,
\* the backfill tasks, the retention and reconciliation loops and the
\* requests, the posts table holds at most one row per uri and the follows
\* table holds at most one row per uri.
C21_RowKeyUniqueness ==
    /\ \A p, q \in posts : p.uri = q.uri => p = q
    /\ \A f, g \in follows : f.uri = g.uri => f = g

\* a follow and a post were written over rows of their uris while a backfill
\* task and sync_follows_for_user were at work and the retention had deleted
C21_Witness ==
    /\ {FOLLOW, POST} \subseteq applied.again
    /\ \E i \in DOMAIN tasks : tasks[i].pc \in {"follows", "select", "posts"}
    /\ sync.pc = "loop"
    /\ log.expired # {}
    /\ posts # {} /\ follows # {}

(***************************************************************************)
(* Specification SpecActive: everything that runs beside the active_users  *)
(* table.  bob asks for the feed for the first time, alice's request sets  *)
(* off a backfill, the consumer writes follows, a retention loop runs, and *)
(* passes of reconciliation and of the cleanup of inactive users are       *)
(* called.                                                                 *)
(***************************************************************************)
ActiveEvents ==
    {Commit("alice", FOLLOW, 1, "create", FollowRec("carol"), CID),
     Commit("carol", FOLLOW, 1, "create", FollowRec("bob"), CID)}

NextActive ==
    \/ \E ev \in ActiveEvents : HandleEvent(ev, TRUE) /\ UNCHANGED <<log, server>>
    \/ RecordRequest("bob", TRUE)
    \/ SharedRequest
    \/ FeedTaskCheck
    \/ FeedTaskFollows
    \/ FeedTaskSelect
    \/ FeedTaskPosts
    \/ RetentionTick(1)
    \/ RetentionCall(1)
    \/ PassStart(TRUE)
    \/ \E resp \in SharedResponses : PassFetch(resp)
    \/ PassSync(TRUE)
    \/ SyncStep(TRUE)
    \/ PassStamp(TRUE)
    \/ InactiveStart(TRUE)
    \/ \E dbOk \in BOOLEAN : InactiveStep(dbOk)

SpecActive == InitShared /\ [][NextActive]_vars

\* C22: no step of the system deletes an active_users row: the DIDs of the
\* table only grow.
C22_ActiveUsersNeverExpire ==
    [][{r.did : r \in active_users} \subseteq {r.did : r \in active_users'}]_vars

\* carol, away for 7 days, has lost her follows to the cleanup of inactive
\* users and kept her row; bob's row was written, alice's was stamped
C22_Witness ==
    /\ server.pass.pc = "cleaned" /\ server.pass.result = "Ok"
    /\ {"bob", "carol"} \subseteq {r.did : r \in active_users}
    /\ \E r \in active_users : r.did = "alice" /\ r.last_follow_sync # NONE
    /\ \E f \in follows : f.follower_did = "alice"
    /\ ~\E f \in follows : f.follower_did = "carol"
    /\ server.pass.deleted_count > 0

(***************************************************************************)
(* Specification SpecCap: one run of backfill_posts(bob, limit) for every  *)
(* limit up to MaxCap, against an author feed whose pages hold plain       *)
(* posts, a repost and an item without uri.                                *)
(***************************************************************************)
CapItem(k) == FeedItem(AtUri("bob", POST, k), CID, PlainPost(k), FALSE)

CapResponses ==
    {AuthorFeedResponse(FALSE, NONE, NONE),
     AuthorFeedResponse(TRUE, NONE, NONE),
     AuthorFeedResponse(TRUE, Some(<<CapItem(1)>>), Some("c")),
     AuthorFeedResponse(TRUE, Some(<<CapItem(3)>>), Some("c")),
     AuthorFeedResponse(TRUE,
        Some(<<FeedItem(AtUri("carol", POST, 1), CID, PlainPost(0), TRUE), CapItem(2)>>),
        Some("c")),
     AuthorFeedResponse(TRUE,
        Some(<<FeedItem(NoUri, CID, PlainPost(0), FALSE), CapItem(3)>>), Some("c")),
     AuthorFeedResponse(TRUE, Some(<<CapItem(1), CapItem(2), CapItem(3)>>), NONE)}

\* backfill_posts(db, "bob", limit) is called
InitCap ==
    /\ now = MaxCreated
    /\ posts = {}
    /\ follows = {}
    /\ active_users = {}
    /\ \E limit \in 0..MaxCap :
          /\ tasks = [i \in 1..MaxTasks |->
                        IF i = 1 THEN [SpawnedTask("alice") EXCEPT
                                         !.pc = "posts", !.targets = <<"bob">>,
                                         !.limit = limit]
                        ELSE NoTask]
          /\ log = [NoLog EXCEPT !.cap = limit]
    /\ uuid = 0
    /\ client = NoClient
    /\ sync = NoSync
    /\ applied = [rows |-> << >>, again |-> {}]
    /\ reposts = [seen |-> {}, written |-> {}]
    /\ server = NoServer

\* one iteration of the loop of the run; every db.insert_post it calls is
\* counted, failed or not
CapPosts ==
    \E resp \in CapResponses, fails \in SUBSET {1, 2, 3} :
        /\ BackfillPosts(1, resp, fails)
        /\ log' = [log EXCEPT !.attempts =
                      IF ~resp.ok \/ resp.feed = NONE THEN @
                      ELSE @ + PostsOfPage(resp.feed[1], 1,
                                   [table |-> posts, fetched |-> 0, done |-> FALSE,
                                    writes |-> {}, seen |-> {}, marked |-> {}],
                                   [target |-> "bob", clock |-> now,
                                    limit |-> tasks[1].limit - tasks[1].fetched,
                                    fails |-> fails]).fetched]
        /\ UNCHANGED server

SpecCap == InitCap /\ [][CapPosts]_vars

\* C35: one run of backfill_posts(target, limit) attempts to insert at most
\* `limit` posts, for every limit >= 0.
C35_PostsPerUserCap == log.attempts <= log.cap

\* C33: within one backfill the posts-of-follows phase begins only when the
\* follows phase has taken its last page, no step of the follows phase writes
\* a post, and a follows phase that fails ends the task without the second
\* phase.
C33_BackfillPhases ==
    [][\A i \in DOMAIN tasks :
          /\ tasks'[i].pc = "select" /\ tasks[i].pc # "select" => tasks[i].pc = "follows"
          /\ tasks'[i].pc = "posts" => tasks[i].pc \in {"select", "posts"}
          /\ tasks[i].pc \in {"check", "follows"} /\ tasks'[i] # tasks[i] => posts' = posts
          /\ \A resp \in BackfillFollowsResponses, fails \in SUBSET {1} :
                BackfillFollows(i, resp, fails) =>
                    /\ ~resp.ok => tasks'[i] = NoTask
                    /\ resp.ok /\ resp.follows # NONE /\ resp.cursor # NONE =>
                          tasks'[i].pc = "follows"]_vars

\* a backfill that wrote a follow is in its second phase, past a page of posts
C33_Witness ==
    \E i \in DOMAIN tasks :
        /\ tasks[i].pc = "posts" /\ tasks[i].fetched > 0
        /\ \E f \in follows : f.follower_did = tasks[i].did /\ f.uri[3] < 0

(***************************************************************************)
(* Specification SpecIsolate: one backfill for alice, who follows bob and  *)
(* carol remotely, with requests and inserts that fail, while the consumer *)
(* writes posts of bob and carol.                                          *)
(***************************************************************************)
IsolateEvents ==
    {Commit(d, POST, 1, "create", PlainPost(0), CID) : d \in {"bob", "carol"}}

IsolateFollowsResponses ==
    {FollowsResponse(FALSE, NONE, NONE),
     FollowsResponse(TRUE, Some(<<"bob", "carol">>), NONE)}

\* the answers of getAuthorFeed for a target
IsolateFeedResponses(target) ==
    {AuthorFeedResponse(FALSE, NONE, NONE),
     AuthorFeedResponse(TRUE, NONE, NONE),
     AuthorFeedResponse(TRUE,
        Some(<<FeedItem(AtUri(target, POST, 1), CID, PlainPost(1), FALSE),
               FeedItem(AtUri(target, POST, 2), CID, PlainPost(2), FALSE)>>), NONE)}

\* the task has found no follows of alice and calls backfill_follows; two
\* uuids are left to draw
InitIsolate ==
    /\ now = MaxCreated
    /\ posts = {}
    /\ follows = {}
    /\ active_users = {}
    /\ tasks = [i \in 1..MaxTasks |->
                  IF i = 1 THEN [SpawnedTask("alice") EXCEPT !.pc = "follows"] ELSE NoTask]
    /\ uuid = MaxUuid - 2
    /\ client = NoClient
    /\ sync = NoSync
    /\ applied = [rows |-> << >>, again |-> {}]
    /\ reposts = [seen |-> {}, written |-> {}]
    /\ log = NoLog
    /\ server = NoServer

IsolatePosts(resp, fails) ==
    /\ resp \in IsolateFeedResponses(Head(tasks[1].targets))
    /\ BackfillPosts(1, resp, fails)
    /\ UNCHANGED <<log, server>>

NextIsolate ==
    \/ \E ev \in IsolateEvents : HandleEvent(ev, TRUE) /\ UNCHANGED <<log, server>>
    \/ \E resp \in IsolateFollowsResponses, fails \in SUBSET {1, 2} :
          BackfillFollows(1, resp, fails)
    \/ BackfillSelect(1, TRUE)
    \/ \E resp \in UNION {IsolateFeedResponses(d) : d \in DIDs}, fails \in SUBSET {1, 2} :
          tasks[1].pc = "posts" /\ IsolatePosts(resp, fails)

SpecIsolate == InitIsolate /\ [][NextIsolate]_vars

\* the rows a page of getAuthorFeed yields for a target
IsolateRows(resp, target, keep) ==
    {PostOfItem(resp.feed[1][k], target, now) : k \in keep}

\* C34: in the posts-of-follows phase a target whose request fails or whose
\* response is bad is skipped and the next target is taken up; in both phases
\* an insert that fails is skipped and the other entries of the page are
\* inserted.
C34_BackfillIsolation ==
    [][/\ \A resp \in UNION {IsolateFeedResponses(d) : d \in DIDs}, fails \in SUBSET {1, 2} :
            tasks[1].pc = "posts" /\ IsolatePosts(resp, fails) =>
                LET t == tasks[1]
                IN  IF ~resp.ok \/ resp.feed = NONE
                    THEN /\ posts' = posts
                         /\ tasks'[1] = IF Len(t.targets) > 1
                                         THEN [t EXCEPT !.targets = Tail(@), !.cursor = NONE,
                                                        !.fetched = 0]
                                         ELSE NoTask
                    ELSE /\ IsolateRows(resp, Head(t.targets), {1, 2} \ fails) \subseteq posts'
                         /\ posts' \ posts \subseteq
                                IsolateRows(resp, Head(t.targets), {1, 2} \ fails)
                         /\ Len(t.targets) > 1 =>
                                tasks'[1].pc = "posts" /\ tasks'[1].targets = Tail(t.targets)
       /\ \A resp \in IsolateFollowsResponses, fails \in SUBSET {1, 2} :
            BackfillFollows(1, resp, fails) /\ resp.ok =>
                /\ {f.target_did : f \in follows' \ follows} =
                      {resp.follows[1][k] : k \in {1, 2} \ fails}
                /\ follows \subseteq follows'
                /\ tasks'[1].pc = "select"]_vars

\* the batch is over: both follows were written, the request for one target
\* failed or was answered without a feed, and of the other target's page one
\* insert failed and the other row was written
C34_Witness ==
    /\ tasks[1].pc = "idle"
    /\ {f.target_did : f \in follows} = {"bob", "carol"}
    /\ posts = {PostOfItem(FeedItem(AtUri("carol", POST, 2), CID, PlainPost(2), FALSE),
                            "carol", now)}


(***************************************************************************)
(* The 401 answers of the feed endpoint (main.rs:190-242), under SpecAuth. *)
(***************************************************************************)
\* the step is a request that was answered 401
Answered401 == log'.request # log.request /\ log'.request.status = 401

\* C37: a feed-skeleton request answered 401 (no Authorization header, an
\* unreadable one, or a token validate_jwt rejects) writes nothing to posts,
\* follows or active_users and starts no backfill task.
C37_UnauthenticatedNoEffect ==
    [][Answered401 =>
          /\ posts' = posts
          /\ follows' = follows
          /\ active_users' = active_users
          /\ tasks' = tasks
          /\ uuid' = uuid]_vars

\* a token that names alice but whose signature does not verify was answered
\* 401 while a follow of alice is stored and no task runs
C37_Witness ==
    /\ Requested /\ Carried /\ log.request.status = 401
    /\ Has(Sent.claims, "iss") /\ Sent.claims.iss = "alice"
    /\ follows # {}
    /\ \A i \in DOMAIN tasks : tasks[i].pc = "idle"



(***************************************************************************)
(* Specification SpecRetry: the remote API answers the first page of       *)
(* alice's follows and fails from then on, so that every backfill that     *)
(* wrote a follow ended in its follows phase; alice asks for her feed      *)
(* again after the task has ended.                                         *)
(***************************************************************************)
RetryFollowsResponses ==
    {FollowsResponse(FALSE, NONE, NONE),
     FollowsResponse(TRUE, Some(<<"bob">>), Some("c"))}

\* a request later than the end of the earlier task
RetryRequest ==
    /\ \A i \in DOMAIN tasks : tasks[i].pc = "idle"
    /\ get_feed_skeleton(GoodHeader("alice"), NONE, NONE, TRUE)
    /\ UNCHANGED <<log, server>>

RetryFollows ==
    \E i \in DOMAIN tasks, resp \in RetryFollowsResponses, fails \in SUBSET {1} :
        BackfillFollows(i, resp, fails)

NextRetry ==
    \/ Tick
    \/ BackfillIngest
    \/ RetryRequest
    \/ TaskCheck
    \/ RetryFollows

SpecRetry == Init /\ [][NextRetry]_vars

\* C40: when a backfill of d ended in its follows phase after it had written
\* a follow row, the task a later feed request of d spawns calls
\* backfill_follows again.
C40_FailedBackfillRetried ==
    [][\A i \in DOMAIN tasks :
          (/\ tasks[i].pc = "check"
           /\ CountFollows(follows, tasks[i].did) > 0
           /\ CheckDone(i)) => BackfillStarted(i)]_vars


(***************************************************************************)
(* A whole walk of the feed, under SpecPaging: the store a walk reads does *)
(* not change (a write makes the client begin anew).                       *)
(***************************************************************************)
\* C38: a walk from its first request along the returned cursors to an empty
\* page has returned every post of a followed author created before the
\* walk's start, also when eligible posts share a created_at.
C38_PagingCompleteWithTies ==
    (client.status = 200 /\ Len(LastPage) = 0) =>
        Eligible(posts, follows, client.did, client.start) \subseteq PostsIn(Walk)


(***************************************************************************)
(* Specification SpecUnfollow: carol's follow of bob reaches the store     *)
(* through the firehose and through a backfill; she then unfollows bob,    *)
(* the firehose delivers the delete, and the follow sync and the cleanup   *)
(* of inactive users run.                                                  *)
(***************************************************************************)
UnfollowEvents ==
    {Commit("carol", FOLLOW, 1, "create", FollowRec("bob"), CID),
     Commit("carol", FOLLOW, 1, "delete", FollowRecNoSubject, CID)}

\* a token of carol that outlives the run
UnfollowHeader ==
    Header(TRUE, Token(3, [iss |-> "carol", aud |-> ServiceDid, exp |-> now_secs(now) + 1],
                       TRUE, TRUE))

UnfollowIngest ==
    \E ev \in UnfollowEvents : HandleEvent(ev, TRUE) /\ LogEvent(ev, TRUE) /\ UNCHANGED server

UnfollowRequest ==
    /\ \A i \in DOMAIN tasks : tasks[i].pc = "idle"
    /\ get_feed_skeleton(UnfollowHeader, NONE, NONE, TRUE)
    /\ UNCHANGED <<log, server>>

NextUnfollow ==
    \/ UnfollowIngest
    \/ UnfollowRequest
    \/ FeedTaskCheck
    \/ FeedTaskFollows
    \/ FeedTaskSelect
    \/ FeedTaskPosts
    \/ SyncCall("carol", {}, TRUE)
    \/ SyncStep(TRUE)
    \/ InactiveStart(TRUE)
    \/ InactiveStep(TRUE)

\* bob's post is stored, and one uuid is left to draw
InitUnfollow ==
    /\ now = hours(24 * 7) + MaxCreated
    /\ posts = {PostOfEvent(Commit("bob", POST, 2, "create", PlainPost(0), CID),
                            now - hours(48) - 1)}
    /\ follows = {}
    /\ \E t \in {now - hours(24 * 7), now - 1} :
          active_users =
              record_feed_request(record_feed_request({}, "alice", now - 1), "carol", t)
    /\ tasks = [i \in 1..MaxTasks |-> NoTask]
    /\ uuid = MaxUuid - 1
    /\ client = NoClient
    /\ sync = NoSync
    /\ applied = [rows |-> << >>, again |-> {}]
    /\ reposts = [seen |-> {}, written |-> {}]
    /\ log = NoLog
    /\ server = NoServer

SpecUnfollow == InitUnfollow /\ [][NextUnfollow]_vars

\* the follow rows a backfill wrote: their rkey is a uuid
Backfilled(ftable) == {f \in ftable : f.uri[3] < 0}

\* the step applies a firehose delete commit of a follow record
FollowDeleted ==
    \E ev \in {e \in UnfollowEvents : e.collection = FOLLOW /\ e.operation = "delete"} :
        HandleEvent(ev, TRUE)

\* every post of the target of follow row f is in the first page of the feed
\* of f's follower
ShownTo(f, ptable, ftable, clock) ==
    \A p \in {r \in ptable : r.author_did = f.target_did} :
        \A resp \in generate_feed(ptable, ftable, f.follower_did, NONE, NONE, clock) :
            \E k \in 1..Len(resp.page) : resp.page[k].uri = p.uri

\* C36: a firehose delete commit of a follow leaves every backfilled follow
\* row in the store and the posts of its target in the follower's feed; a
\* backfilled row leaves the store only in a step of sync_follows_for_user or
\* of cleanup_inactive_user_follows.
C36_BackfilledFollowOutlivesDelete ==
    [][/\ FollowDeleted =>
             \A f \in Backfilled(follows) :
                 f \in follows' /\ ShownTo(f, posts', follows', now')
       /\ Backfilled(follows) \ follows' # {} =>
             \/ sync.pc = "loop" /\ sync' # sync
             \/ server.pass.pc = "delete" /\ server'.pass # server.pass]_vars

\* the firehose delete of carol's follow found no row, the backfilled row of
\* the same follow is stored and carol's feed shows bob's posts
C36_Witness ==
    /\ AtUri("carol", FOLLOW, 1) \in log.early
    /\ \E f \in Backfilled(follows) : f.follower_did = "carol" /\ f.target_did = "bob"
    /\ client.status = 200 /\ client.did = "carol" /\ Len(Walk) = 1


(***************************************************************************)
(* Specification SpecInactive: calls of cleanup_inactive_user_follows, the *)
(* firehose writing follows between one call and the next.                 *)
(***************************************************************************)
\* follows of alice and carol, who have asked for their feed, and of bob,
\* who never has
InactiveEvents ==
    {Commit("alice", FOLLOW, 1, "create", FollowRec("carol"), CID),
     Commit("carol", FOLLOW, 1, "create", FollowRec("bob"), CID),
     Commit("carol", FOLLOW, 2, "create", FollowRec("alice"), CID),
     Commit("bob", FOLLOW, 1, "create", FollowRec("alice"), CID)}

InCleanup == server.pass.pc \in {"query", "delete"}

InactiveIngest ==
    /\ ~InCleanup
    /\ \E ev \in InactiveEvents : HandleEvent(ev, TRUE)
    /\ UNCHANGED <<log, server>>

NextInactive ==
    \/ InactiveIngest
    \/ \E dbOk \in BOOLEAN : InactiveStart(dbOk)
    \/ \E dbOk \in BOOLEAN : InactiveStep(dbOk)

SpecInactive == InitReconcile /\ [][NextInactive]_vars

\* did asked for its feed less than 7 days before clock
RecentlyActive(table, did, clock) ==
    \E r \in table :
        /\ r.did = did
        /\ parse_from_rfc3339(r.last_feed_request) > clock - hours(24 * 7)

ActiveRows(ftable) == {f \in ftable : RecentlyActive(active_users, f.follower_did, now)}

\* C32: when cleanup_inactive_user_follows returns Ok, every follow row left
\* has a follower that asked for its feed within the last 7 days; no step of
\* the call changes posts, active_users or a follow row of such a follower;
\* and a call on a store that holds only such rows changes nothing.
C32_InactiveFollowCleanup ==
    [][server'.pass # server.pass =>
          /\ (server'.pass.pc = "cleaned" /\ server'.pass.result = "Ok" /\ InCleanup) =>
                follows' = ActiveRows(follows')
          /\ posts' = posts
          /\ active_users' = active_users
          /\ ActiveRows(follows') = ActiveRows(follows)
          /\ follows' \subseteq follows
          /\ follows = ActiveRows(follows) => follows' = follows]_vars

\* a call returned Ok after it deleted the rows of carol, whose last request
\* is exactly 7 days old, and of bob, and left the row of alice
C32_Witness ==
    /\ server.pass.pc = "cleaned" /\ server.pass.result = "Ok"
    /\ server.pass.deleted_count = 3
    /\ \E r \in active_users :
          r.did = "carol" /\ r.last_feed_request = to_rfc3339(now - hours(24 * 7))
    /\ {f.follower_did : f \in follows} = {"alice"}


(***************************************************************************)
(* Specification SpecVerify: reconciliation passes for alice, who follows  *)
(* bob and carol at the remote API and no longer follows dave.  The API    *)
(* serves her list in two pages; a request may fail, and a response may be *)
(* an error body, which has no `follows` array.  The firehose delivers her *)
(* follows, dave's being one whose delete was missed.                      *)
(***************************************************************************)
VerifyRemote == {"bob", "carol"}

VerifyEvents ==
    {Commit("alice", FOLLOW, 1, "create", FollowRec("bob"), CID),
     Commit("alice", FOLLOW, 2, "create", FollowRec("carol"), CID),
     Commit("alice", FOLLOW, 3, "create", FollowRec("dave"), CID)}

\* what the API may answer to the request that follows the pages collected
VerifyResponses(current) ==
    {FollowsResponse(FALSE, NONE, NONE),
     FollowsResponse(TRUE, NONE, NONE),
     IF "bob" \notin current THEN FollowsResponse(TRUE, Some(<<"bob">>), Some("c1"))
     ELSE FollowsResponse(TRUE, Some(<<"carol">>), NONE)}

InitVerify ==
    /\ now = hours(24 * 7) + MaxCreated
    /\ posts = {}
    /\ follows = {}
    /\ active_users = record_feed_request({}, "alice", now - 1)
    /\ tasks = [i \in 1..MaxTasks |-> NoTask]
    /\ uuid = 0
    /\ client = NoClient
    /\ sync = NoSync
    /\ applied = [rows |-> << >>, again |-> {}]
    /\ reposts = [seen |-> {}, written |-> {}]
    /\ log = NoLog
    /\ server = NoServer

VerifyFetch == \E resp \in VerifyResponses(server.pass.current) : PassFetch(resp)

NextVerify ==
    \/ \E ev \in VerifyEvents : HandleEvent(ev, TRUE) /\ UNCHANGED <<log, server>>
    \/ PassStart(TRUE)
    \/ server.pass.pc = "fetch" /\ VerifyFetch
    \/ \E dbOk \in BOOLEAN : PassSync(dbOk)
    \/ \E dbOk \in BOOLEAN : SyncStep(dbOk)
    \/ PassStamp(TRUE)

SpecVerify == InitVerify /\ [][NextVerify]_vars

\* the follow rows of user_did that the step removes
Removed(user_did) == {f \in follows \ follows' : f.follower_did = user_did}

\* C31: a follow row that sync_follows_for_user deletes has a target that
\* the user's remote follow list does not contain, whether the paging ended
\* with the last page, with a failed request or with a response that has no
\* `follows` array.
C31_DeletesOnlyAbsentFollows ==
    [][(sync.pc = "loop" /\ sync' # sync) =>
          \A f \in Removed(sync.did) : f.target_did \notin VerifyRemote]_vars


(***************************************************************************)
(* Specification SpecNewFollow: alice, who follows bob, follows carol      *)
(* while a reconciliation pass is at work: the remote API holds the new    *)
(* follow from then on, and the firehose delivers its create commit.  The  *)
(* API answers with the whole list as it is at the request, or not at all. *)
(***************************************************************************)
NewFollowEvents ==
    {Commit("alice", FOLLOW, 1, "create", FollowRec("bob"), CID),
     Commit("alice", FOLLOW, 2, "create", FollowRec("carol"), CID)}

\* the list the API serves for alice, in one page
RemoteList(remote) == SelectSeq(<<"bob", "carol">>, LAMBDA d : d \in remote)

InitNewFollow ==
    /\ now = hours(24 * 7) + MaxCreated
    /\ posts = {}
    /\ follows = {}
    /\ active_users = record_feed_request({}, "alice", now - 1)
    /\ tasks = [i \in 1..MaxTasks |-> NoTask]
    /\ uuid = 0
    /\ client = NoClient
    /\ sync = NoSync
    /\ applied = [rows |-> << >>, again |-> {}]
    /\ reposts = [seen |-> {}, written |-> {}]
    /\ log = [NoLog EXCEPT !.remote = {"bob"}]
    /\ server = NoServer

\* alice follows carol: the record is created in her repository
NewFollowCreated ==
    /\ "carol" \notin log.remote
    /\ log' = [log EXCEPT !.remote = @ \cup {"carol"}]
    /\ UNCHANGED <<now, posts, follows, active_users, tasks, uuid, client, sync,
                   applied, reposts, server>>

\* the firehose delivers the create commit of a record that exists
NewFollowIngest ==
    /\ \E ev \in {e \in NewFollowEvents : e.record.subject \in log.remote} :
          HandleEvent(ev, TRUE)
    /\ UNCHANGED <<log, server>>

NewFollowFetch ==
    \E resp \in {FollowsResponse(FALSE, NONE, NONE),
                 FollowsResponse(TRUE, Some(RemoteList(log.remote)), NONE)} :
        PassFetch(resp)

NextNewFollow ==
    \/ NewFollowCreated
    \/ NewFollowIngest
    \/ \E dbOk \in BOOLEAN : PassStart(dbOk)
    \/ NewFollowFetch
    \/ \E dbOk \in BOOLEAN : PassSync(dbOk)
    \/ \E dbOk \in BOOLEAN : SyncStep(dbOk)
    \/ \E dbOk \in BOOLEAN : PassStamp(dbOk)

SpecNewFollow == InitNewFollow /\ [][NextNewFollow]_vars

\* C39: whatever the interleaving of a reconciliation with the consumer, the
\* sync deletes no follow row that the consumer wrote for a follow that
\* exists remotely, so that such a row is in the store when the pass ends.
C39_ReconciliationNoRace ==
    [][(sync.pc = "loop" /\ sync' # sync) =>
          \A f \in follows \ follows' :
              (f.follower_did = sync.did /\ f.uri[3] > 0) => f.target_did \notin log.remote]_vars

============================================================================
